---- MODULE Spec2Model ----
(***************************************************************************)
(* A model of the TaskTracker mission store and of its spreadsheet export, *)
(* import and period report (client/src/lib/excelUtils.ts,                 *)
(* client/src/lib/localStorage.ts, client/src/pages/period-report.tsx,     *)
(* client/src/pages/mission-management.tsx).                               *)
(*                                                                         *)
(* Conventions.                                                            *)
(*  - A JavaScript string is a sequence of one-character strings.  Arabic  *)
(*    literals of the source are written in Latin transliteration, the     *)
(*    original is given in the comment next to each.                       *)
(*  - A JavaScript number is an exact rational [n |-> _, d |-> _] in       *)
(*    lowest terms with d > 0: sums and the equal split amount / k are     *)
(*    computed without rounding.                                           *)
(*  - A value that may be null/undefined is [some |-> BOOLEAN, v |-> _].   *)
(***************************************************************************)
EXTENDS Integers, Sequences, FiniteSets, TLC

\* ------------------------------------------------------------------ bounds
MaxMissions == 2   \* stored missions the model lets the collection grow to
MaxIds == 2        \* mission ids the model lets generateMissionId/UUID hand out
MaxTime == 5       \* the clock of the backup protocol stops after 50 minutes
MaxExpenses == 3   \* expenses the model lets localExpenses grow to
MaxCounter == 3    \* the expenseCounter up to which the model adds expenses

\* ------------------------------------------------------------- local names
\* F applied to v: the value v under the name that F gives it.
With(v, F(_)) == F(v)

\* ------------------------------------------------------------- rationals
RECURSIVE GCD(_, _)
GCD(a, b) == IF b = 0 THEN a ELSE GCD(b, a % b)

Abs(x) == IF x < 0 THEN 0 - x ELSE x

Norm(n, d) ==
  LET g == GCD(Abs(n), Abs(d))
      s == IF d < 0 THEN 0 - 1 ELSE 1
  IN  [n |-> (s * n) \div g, d |-> (s * d) \div g]

Rat(k) == [n |-> k, d |-> 1]
Zero == Rat(0)
RAdd(a, b) == Norm(a.n * b.d + b.n * a.d, a.d * b.d)
RSub(a, b) == Norm(a.n * b.d - b.n * a.d, a.d * b.d)
RDivInt(a, k) == Norm(a.n, a.d * k)
RLt(a, b) == a.n * b.d < b.n * a.d
RLe(a, b) == a.n * b.d <= b.n * a.d
RAbs(a) == [n |-> Abs(a.n), d |-> a.d]
RFloor(a) == a.n \div a.d
Cent == [n |-> 1, d |-> 100]   \* the 0.01 of Math.abs(x - y) > 0.01

RECURSIVE RSumSeq(_)
RSumSeq(s) == IF s = <<>> THEN Zero ELSE RAdd(s[1], RSumSeq(Tail(s)))

\* --------------------------------------------------------------- strings
Str(s) == [some |-> TRUE, v |-> s]
Null == [some |-> FALSE, v |-> <<>>]

RECURSIVE TrimLeft(_)
TrimLeft(s) == IF s # <<>> /\ s[1] = " " THEN TrimLeft(Tail(s)) ELSE s

RECURSIVE TrimRight(_)
TrimRight(s) ==
  IF s # <<>> /\ s[Len(s)] = " " THEN TrimRight(SubSeq(s, 1, Len(s) - 1)) ELSE s

\* String.prototype.trim
Trim(s) == TrimRight(TrimLeft(s))

\* Order of the characters of the model's alphabet under localeCompare
\* (root collation: white space, then punctuation  - ' @ + = , then digits,
\* then letters).
CharRank(c) ==
  CASE c = " " -> 0
    [] c = "-" -> 1
    [] c = "," -> 2
    [] c = "'" -> 3
    [] c = "@" -> 4
    [] c = "+" -> 5
    [] c = "=" -> 6
    [] c \in {"0", "1", "2", "3", "4", "5", "6", "7", "8", "9"} -> 10
    [] c = "a" -> 20 [] c = "A" -> 21
    [] c = "b" -> 22 [] c = "B" -> 23
    [] c = "C" -> 25 [] c = "D" -> 27 [] c = "E" -> 29
    [] c = "g" -> 33 [] c = "h" -> 35 [] c = "l" -> 43
    [] c = "m" -> 45 [] c = "n" -> 47 [] c = "r" -> 55
    [] c = "X" -> 67 [] c = "y" -> 69
    [] OTHER -> 99

\* a.localeCompare(b) < 0
RECURSIVE StrLess(_, _)
StrLess(a, b) ==
  IF b = <<>> THEN FALSE
  ELSE IF a = <<>> THEN TRUE
  ELSE IF a[1] = b[1] THEN StrLess(Tail(a), Tail(b))
  ELSE CharRank(a[1]) < CharRank(b[1])

\* ------------------------------------------------- formula-injection guard
FormulaChars == {"=", "+", "-", "@"}

\* sanitizeForExcel on a string value: /^[=+\-@]/ gets a leading quote.
sanitizeForExcel(value) ==
  IF value # <<>> /\ value[1] \in FormulaChars THEN <<"'">> \o value ELSE value

\* --------------------------------------------------------- expense types
\* The canonical keys, in the order of the export's subtotal columns.
CanonicalTypes ==
  <<"transportation", "fees", "tips", "office-supplies", "hospitality">>

CanonicalSet == {CanonicalTypes[i] : i \in DOMAIN CanonicalTypes}

\* expenseTypeMapping.  The Arabic labels are transliterated:
\*   intiqalat = انتقالات, rusum = رسوم, ikramiyat = اكراميات,
\*   'ikramiyat = إكراميات, adawat maktabiya = أدوات مكتبية, diyafa = ضيافة.
expenseTypeMapping ==
  [k \in {"transportation", "transport", "fees", "tips", "tip",
          "office-supplies", "hospitality", "intiqalat", "rusum", "ikramiyat",
          "'ikramiyat", "adawat maktabiya", "diyafa"} |->
     CASE k \in {"transportation", "transport", "intiqalat"} -> "transportation"
       [] k \in {"fees", "rusum"} -> "fees"
       [] k \in {"tips", "tip", "ikramiyat", "'ikramiyat"} -> "tips"
       [] k \in {"office-supplies", "adawat maktabiya"} -> "office-supplies"
       [] k = "hospitality" \/ k = "diyafa" -> "hospitality"]

\* expenseTypeMapping is an object literal, so a lookup that finds no own key
\* goes on to Object.prototype: these names give a function (or, for
\* __proto__, the prototype object), a truthy value that is no string.  The
\* one-word "string" InheritedMember stands for that value.
ObjectPrototypeKeys ==
  {"constructor", "toString", "toLocaleString", "valueOf", "hasOwnProperty",
   "isPrototypeOf", "propertyIsEnumerable", "__proto__"}

InheritedMember == <<"[Object.prototype member]">>

\* normalizeExpenseType: expenseTypeMapping[type] || type.  A type is a string
\* like every other: a label of the table is the one-word string <<label>>.
normalizeExpenseType(type) ==
  IF Len(type) = 1 /\ type[1] \in DOMAIN expenseTypeMapping
  THEN <<expenseTypeMapping[type[1]]>>
  ELSE IF Len(type) = 1 /\ type[1] \in ObjectPrototypeKeys THEN InheritedMember
  ELSE type

\* detailedExportTypeMapping, as the sequence Object.entries walks.
detailedExportTypeMapping ==
  << <<"intiqalat", "transportation">>, <<"rusum", "fees">>,
     <<"ikramiyat", "tips">>, <<"'ikramiyat", "tips">>,
     <<"adawat maktabiya", "office-supplies">>, <<"diyafa", "hospitality">> >>

\* ------------------------------------------------------------------ dates
Digits == {"0", "1", "2", "3", "4", "5", "6", "7", "8", "9"}

DigitVal(c) ==
  CASE c = "0" -> 0 [] c = "1" -> 1 [] c = "2" -> 2 [] c = "3" -> 3
    [] c = "4" -> 4 [] c = "5" -> 5 [] c = "6" -> 6 [] c = "7" -> 7
    [] c = "8" -> 8 [] c = "9" -> 9

DigitChar(k) == <<"0", "1", "2", "3", "4", "5", "6", "7", "8", "9">>[k + 1]

\* The Arabic-Indic digits U+0660..U+0669 are written ar0..ar9.
ArabicDigits ==
  <<"ar0", "ar1", "ar2", "ar3", "ar4", "ar5", "ar6", "ar7", "ar8", "ar9">>

normalizeArabicDigits(str) ==
  [i \in DOMAIN str |->
     IF \E k \in 1..10 : ArabicDigits[k] = str[i]
     THEN DigitChar((CHOOSE k \in 1..10 : ArabicDigits[k] = str[i]) - 1)
     ELSE str[i]]

RECURSIVE NatToStr(_)
NatToStr(k) ==
  IF k < 10 THEN <<DigitChar(k)>> ELSE NatToStr(k \div 10) \o <<DigitChar(k % 10)>>

\* Number.prototype.toString of an integer
IntToStr(k) == IF k < 0 THEN <<"-">> \o NatToStr(0 - k) ELSE NatToStr(k)

\* String(n).padStart(2, '0') of an integer
Pad2(k) ==
  With(IntToStr(k), LAMBDA str : IF Len(str) < 2 THEN <<"0">> \o str ELSE str)

formatDateParts(year, month, day) ==
  IntToStr(year) \o <<"-">> \o Pad2(month) \o <<"-">> \o Pad2(day)

\* parseInt of a string of digits
RECURSIVE DigitsToNat(_)
DigitsToNat(s) ==
  IF s = <<>> THEN 0 ELSE 10 * DigitsToNat(SubSeq(s, 1, Len(s) - 1)) + DigitVal(s[Len(s)])

AllDigits(s) == s # <<>> /\ \A i \in DOMAIN s : s[i] \in Digits

IsLeap(y) == (y % 4 = 0 /\ y % 100 # 0) \/ y % 400 = 0

DaysInMonth(y, m) ==
  IF m = 2 THEN (IF IsLeap(y) THEN 29 ELSE 28)
  ELSE IF m \in {4, 6, 9, 11} THEN 30 ELSE 31

\* Days from 1970-01-01 to the proleptic Gregorian date y-m-d (what Date.UTC
\* and the Date constructor compute, divided by the length of a day).
DaysFromCivil(y, m, d) ==
  LET yy == IF m <= 2 THEN y - 1 ELSE y
      era == yy \div 400
      yoe == yy - era * 400
      mp == IF m > 2 THEN m - 3 ELSE m + 9
      doy == (153 * mp + 2) \div 5 + d - 1
      doe == yoe * 365 + yoe \div 4 - yoe \div 100 + doy
  IN  era * 146097 + doe - 719468

\* The calendar date of a day number: getUTCFullYear/getUTCMonth/getUTCDate.
\* The day doy of the year that starts in March, yoe of era.
CivilOfYearDay(era, yoe, doy) ==
  LET mp == (5 * doy + 2) \div 153
      m == IF mp < 10 THEN mp + 3 ELSE mp - 9
  IN  [y |-> yoe + era * 400 + (IF m <= 2 THEN 1 ELSE 0),
       m |-> m,
       d |-> doy - (153 * mp + 2) \div 5 + 1]

\* The day doe of the 400-year era.
CivilOfEraDay(era, doe) ==
  With((doe - doe \div 1460 + doe \div 36524 - doe \div 146096) \div 365,
       LAMBDA yoe :
         CivilOfYearDay(era, yoe, doe - (365 * yoe + yoe \div 4 - yoe \div 100)))

CivilFromDays(z0) ==
  CivilOfEraDay((z0 + 719468) \div 146097, (z0 + 719468) % 146097)

\* excelSerialToISODate: whole days after 1899-12-30, read back in UTC.
excelSerialToISODate(serial) ==
  With(CivilFromDays(DaysFromCivil(1899, 12, 30) + RFloor(serial)),
       LAMBDA c : formatDateParts(c.y, c.m, c.d))

\* String.prototype.split on a one-character separator
RECURSIVE Split(_, _)
Split(s, sep) ==
  IF \A i \in DOMAIN s : s[i] # sep THEN <<s>>
  ELSE LET k == CHOOSE i \in DOMAIN s :
                  s[i] = sep /\ \A j \in 1..(i - 1) : s[j] # sep
       IN  <<SubSeq(s, 1, k - 1)>> \o Split(SubSeq(s, k + 1, Len(s)), sep)

\* The eight regular expressions of tryParseDate, in order: the separator,
\* the allowed lengths of the three digit groups, and the branch that reads
\* the groups ("ymd" year first, "amb" the x/y/yyyy shape, "dmy" the rest).
DateFormats ==
  << [sep |-> "-", l1 |-> {4}, l3 |-> {1, 2}, kind |-> "ymd"],
     [sep |-> "/", l1 |-> {1, 2}, l3 |-> {4}, kind |-> "amb"],
     [sep |-> "/", l1 |-> {1, 2}, l3 |-> {2}, kind |-> "dmy"],
     [sep |-> "-", l1 |-> {1, 2}, l3 |-> {4}, kind |-> "dmy"],
     [sep |-> "-", l1 |-> {1, 2}, l3 |-> {2}, kind |-> "dmy"],
     [sep |-> "/", l1 |-> {4}, l3 |-> {1, 2}, kind |-> "ymd"],
     [sep |-> ".", l1 |-> {1, 2}, l3 |-> {4}, kind |-> "dmy"],
     [sep |-> ".", l1 |-> {4}, l3 |-> {1, 2}, kind |-> "ymd"] >>

\* Whether the pieces p between the separators are what the format wants.
FormatMatches(f, p) ==
  /\ Len(p) = 3
  /\ \A i \in 1..3 : AllDigits(p[i])
  /\ Len(p[1]) \in f.l1 /\ Len(p[2]) \in {1, 2} /\ Len(p[3]) \in f.l3

KindPartsDayFirst(kind, a, b, c) ==
  CASE kind = "ymd" -> [y |-> a, m |-> b, d |-> c]
    [] kind = "amb" -> [y |-> c, m |-> b, d |-> a]
    [] kind = "dmy" ->
         [y |-> IF c < 100 THEN c + (IF c > 50 THEN 1900 ELSE 2000) ELSE c,
          m |-> b, d |-> a]

\* The year, month and day a format of the given kind reads from the three
\* numbers a, b, c of a match, before validation.
KindParts(kind, a, b, c) ==
  CASE kind = "ymd" -> [y |-> a, m |-> b, d |-> c]
    [] kind = "amb" ->
         IF a > 12 THEN [y |-> c, m |-> b, d |-> a]
         ELSE IF b > 12 THEN [y |-> c, m |-> a, d |-> b]
         ELSE [y |-> c, m |-> b, d |-> a]
    [] kind = "dmy" ->
         [y |-> IF c < 100 THEN c + (IF c > 50 THEN 1900 ELSE 2000) ELSE c,
          m |-> b, d |-> a]

FormatParts(f, p) ==
  KindParts(f.kind, DigitsToNat(p[1]), DigitsToNat(p[2]), DigitsToNat(p[3]))

ValidDatePartsOfRanges(p) ==
  /\ p.y >= 1900 /\ p.y <= 2100
  /\ p.m >= 1 /\ p.m <= 12
  /\ p.d >= 1 /\ p.d <= 31

\* "Validate date components" and the Date round trip of lines 201-207.
ValidDateParts(p) ==
  /\ p.y >= 1900 /\ p.y <= 2100
  /\ p.m >= 1 /\ p.m <= 12
  /\ p.d >= 1 /\ p.d <= 31
  /\ p.d <= DaysInMonth(p.y, p.m)

FormatAccepts(f, p) == FormatMatches(f, p) /\ ValidDateParts(FormatParts(f, p))

\* The date string of validated parts
FormatValid(ymd) == Str(formatDateParts(ymd.y, ymd.m, ymd.d))

\* The formats, in order, tried on the normalized string s: the first that
\* matches and validates gives the date.
FirstAccepted(s, ok) ==
  IF ok = {} THEN Null
  ELSE With(DateFormats[CHOOSE i \in ok : \A j \in ok : i <= j],
            LAMBDA f : FormatValid(FormatParts(f, Split(s, f.sep))))

TryFormats(s) ==
  FirstAccepted(s, {k \in DOMAIN DateFormats :
                      FormatAccepts(DateFormats[k], Split(s, DateFormats[k].sep))})

\* tryParseDate on a string
tryParseDateString(input) ==
  IF input = <<>> THEN Null ELSE TryFormats(normalizeArabicDigits(Trim(input)))

\* ------------------------------------------------------- spreadsheet cells
\* A cell of a sheet_to_json row: a number, a string, or (cellDates: true) a
\* Date, given by the day number of its local calendar date.  A column that
\* is absent from the row is absent from the row's domain.
NumCell(r) == [t |-> "num", n |-> r, s |-> <<>>]
StrCell(s) == [t |-> "str", n |-> Zero, s |-> s]
DateCell(day) == [t |-> "date", n |-> Rat(day), s |-> <<>>]
Undefined == [t |-> "undefined", n |-> Zero, s |-> <<>>]

\* row[key]
Cell(row, key) == IF key \in DOMAIN row THEN row[key] ELSE Undefined

\* JavaScript truthiness of a cell value
Truthy(c) ==
  CASE c.t = "num" -> c.n # Zero
    [] c.t = "str" -> c.s # <<>>
    [] c.t = "date" -> TRUE
    [] OTHER -> FALSE

\* row[k1] || row[k2] || ... || dflt
RECURSIVE OrCells(_, _, _)
OrCells(row, keys, dflt) ==
  IF keys = <<>> THEN dflt
  ELSE IF Truthy(Cell(row, keys[1])) THEN Cell(row, keys[1])
  ELSE OrCells(row, Tail(keys), dflt)

\* row[k1] || ... || row[kn]: the last operand is the value when none is truthy
OrCellsLast(row, keys) ==
  OrCells(row, SubSeq(keys, 1, Len(keys) - 1), Cell(row, keys[Len(keys)]))

\* The digits of the fraction num/den < 1 that Number.prototype.toString
\* prints, for the terminating fractions the model's cells hold.
RECURSIVE FracDigits(_, _)
FracDigits(num, den) ==
  IF num = 0 THEN <<>>
  ELSE <<DigitChar((num * 10) \div den)>> \o FracDigits((num * 10) % den, den)

\* String(number)
NumToStr(r) ==
  (IF r.n < 0 THEN <<"-">> ELSE <<>>) \o NatToStr(Abs(r.n) \div r.d)
    \o (IF Abs(r.n) % r.d = 0 THEN <<>>
        ELSE <<".">> \o FracDigits(Abs(r.n) % r.d, r.d))

\* String(value).  A Date prints as its long local form, one opaque word here.
CellToString(c) ==
  CASE c.t = "num" -> NumToStr(c.n)
    [] c.t = "str" -> c.s
    [] c.t = "date" -> <<"[Date]">>
    [] OTHER -> <<"undefined">>

\* The longest prefix of digits
RECURSIVE DigitPrefix(_)
DigitPrefix(s) ==
  IF s # <<>> /\ s[1] \in Digits THEN <<s[1]>> \o DigitPrefix(Tail(s)) ELSE <<>>

\* 10 to the k
RECURSIVE Pow10(_)
Pow10(k) == IF k = 0 THEN 1 ELSE 10 * Pow10(k - 1)

\* parseFloat of a string: optional white space and sign, digits, optional
\* fraction.  [some |-> FALSE] is NaN.
\* The number with the sign, the integer digits ip and the fraction digits fp
FloatOf(neg, ip, fp) ==
  LET mag == RAdd(Rat(DigitsToNat(ip)), Norm(DigitsToNat(fp), Pow10(Len(fp))))
  IN  IF ip = <<>> /\ fp = <<>> THEN [some |-> FALSE, v |-> Zero]
      ELSE [some |-> TRUE, v |-> IF neg THEN RSub(Zero, mag) ELSE mag]

\* The digits that follow a "." at the head of rest
FractionDigits(rest) ==
  IF rest # <<>> /\ rest[1] = "." THEN DigitPrefix(Tail(rest)) ELSE <<>>

\* The unsigned rest s1 of the string: integer digits, then the fraction
UnsignedFloat(neg, s1, ip) ==
  FloatOf(neg, ip, FractionDigits(SubSeq(s1, Len(ip) + 1, Len(s1))))

SignedFloat(s0) ==
  With(IF s0 # <<>> /\ s0[1] \in {"-", "+"} THEN Tail(s0) ELSE s0,
       LAMBDA s1 : UnsignedFloat(s0 # <<>> /\ s0[1] = "-", s1, DigitPrefix(s1)))

ParseFloatStr(str) == SignedFloat(TrimLeft(str))

\* parseFloat(value)
ParseFloat(c) ==
  CASE c.t = "num" -> [some |-> TRUE, v |-> c.n]
    [] c.t = "str" -> ParseFloatStr(c.s)
    [] OTHER -> [some |-> FALSE, v |-> Zero]

\* parseFloat(value) || 0 as a number
ParseFloatOr0(c) == With(ParseFloat(c), LAMBDA f : IF f.some THEN f.v ELSE Zero)

\* parseInt(value) || 0: the integer part, toward zero
\* The integer part of a number, toward zero; 0 for NaN
Truncated(f) ==
  IF ~f.some THEN 0
  ELSE IF f.v.n < 0 THEN 0 - ((0 - f.v.n) \div f.v.d) ELSE f.v.n \div f.v.d

\* The sign and the digits parseInt reads: it stops at the first non-digit,
\* "." included.
IntPrefix(s0) ==
  LET sg == IF s0 # <<>> /\ s0[1] \in {"-", "+"} THEN <<s0[1]>> ELSE <<>>
  IN  sg \o DigitPrefix(SubSeq(s0, Len(sg) + 1, Len(s0)))

ParseIntOr0(c) == Truncated(ParseFloatStr(IntPrefix(TrimLeft(CellToString(c)))))

\* The separators of val.replace(/[,،]/g, ''): the comma and the Arabic comma
\* (written "ar,").
StripCommas(s) == SelectSeq(s, LAMBDA c : c \notin {",", "ar,"})

\* parseNumber
parseNumber(val) ==
  CASE val.t = "num" -> val.n
    [] val.t = "str" ->
         IF val.s = <<>> THEN Zero
         ELSE With(ParseFloatStr(StripCommas(val.s)),
                   LAMBDA f : IF f.some THEN f.v ELSE Zero)
    [] OTHER -> Zero

\* "Today" of new Date().toISOString().split('T')[0]
TodayISO == <<"2", "0", "2", "5", "-", "0", "6", "-", "1", "5">>

\* tryParseDate
tryParseDate(input) ==
  IF ~Truthy(input) THEN Null
  ELSE IF input.t = "date" THEN
    FormatValid(CivilFromDays(RFloor(input.n)))
  ELSE IF input.t = "num" THEN Str(excelSerialToISODate(input.n))
  ELSE tryParseDateString(input.s)

\* ---------------------------------------------------------- column names
\* A column name is <<label, i>>: the label followed by the slot number i, or
\* the bare label when i = 0.  The labels, transliterated:
\*   ism almuwazzaf = اسم الموظف, almuwazzaf = الموظف,
\*   kud almuwazzaf = كود الموظف, alkud = الكود, alfar = الفرع, far = فرع,
\*   tarikh almamuriya = تاريخ المأمورية, altarikh = التاريخ, alyawm = اليوم,
\*   bayan = بيـــــــــــــــــــــــان, albayan = البيان, wasf = وصف,
\*   bank / sharika ( bank = بنك / شركة ( بنك, alijmali = الاجمالى,
\*   raqm almamuriya = رقم المأمورية, kud almamuriya = كود المأمورية,
\*   raqm = رقم, kud = كود, almarji = المرجع, albank = البنك, bank = بنك,
\*   ijmali almasrufat = إجمالي المصروفات, al'ijmali = الإجمالي,
\*   naw almasruf = نوع المصروف, alnaw = النوع, almablagh = المبلغ,
\*   alqima = القيمة, albunuk = البنوك.
Col(label) == <<label, 0>>
BankCol(i) == <<"bank / sharika ( bank", i>>
TypeCol(label, i) == <<label, i>>
SlotTotalCol(i) == <<"alijmali", i>>
GrandTotalCol == Col("alijmali")

NameCols == <<Col("ism almuwazzaf"), Col("almuwazzaf")>>
CodeCols == <<Col("kud almuwazzaf"), Col("alkud")>>
BranchCols == <<Col("alfar"), Col("far")>>
DateCols == <<Col("tarikh almamuriya"), Col("altarikh")>>
DetailedStatementCols == <<Col("bayan"), Col("albayan"), Col("wasf")>>
SimpleStatementCols == <<Col("albayan"), Col("wasf")>>
SimpleBankCols == <<Col("albank"), Col("bank")>>
SimpleTotalCols == <<Col("ijmali almasrufat"), Col("al'ijmali")>>
MissionIdCols ==
  <<Col("raqm almamuriya"), Col("kud almamuriya"), Col("raqm"), Col("ID"),
    Col("Mission ID"), Col("kud"), Col("almarji")>>
ExpenseTypeCols == <<Col("naw almasruf"), Col("alnaw")>>
ExpenseBanksCols == <<Col("albunuk"), Col("albank")>>

\* The sentinel bank names: ghyr mhdd = غير محدد ("unspecified"),
\* la ywjd bank = لا يوجد بنك ("no bank").
UNSPECIFIED == <<"ghyr mhdd">>
NO_BANK == <<"la ywjd bank">>

\* ------------------------------------------------------- sequence helpers
\* Array.from(new Set(seq)): first occurrences, in order
RECURSIVE Dedupe(_)
Dedupe(seq) ==
  IF seq = <<>> THEN <<>>
  ELSE LET init == Dedupe(SubSeq(seq, 1, Len(seq) - 1))
           x == seq[Len(seq)]
       IN  IF \E i \in DOMAIN init : init[i] = x THEN init ELSE Append(init, x)

Range(seq) == {seq[i] : i \in DOMAIN seq}

\* array.includes(x)
Includes(seq, x) == \E i \in DOMAIN seq : seq[i] = x

\* ------------------------------------------------------ missions, expenses
\* ExpenseItem: id, type, amount, banks and the optional bankAllocations, an
\* object held as the sequence of its [bank, amount] entries.
NoAllocations == [some |-> FALSE, v |-> <<>>]

\* expense.bankAllocations[bankName], [some |-> FALSE] when there is none
AllocationOf(expense, bankName) ==
  LET a == expense.bankAllocations
  IN  IF a.some /\ \E i \in DOMAIN a.v : a.v[i].bank = bankName
      THEN [some |-> TRUE,
            v |-> a.v[CHOOSE i \in DOMAIN a.v : a.v[i].bank = bankName].amount]
      ELSE [some |-> FALSE, v |-> Zero]

\* sum of expense.amount over a list of expenses (the reduce of the source)
RECURSIVE SumAmounts(_)
SumAmounts(expenses) ==
  IF expenses = <<>> THEN Zero
  ELSE RAdd(SumAmounts(SubSeq(expenses, 1, Len(expenses) - 1)),
            expenses[Len(expenses)].amount)

\* ---------------------------------------------------------- bank allocation
\* A mutant of FallbackBank: the legacy bank field is ignored.
FallbackBankIgnoringBank(mission) == UNSPECIFIED

\* mission.bank && mission.bank.trim() !== '' ? mission.bank.trim() : 'غير محدد'
FallbackBank(mission) ==
  IF mission.bank.some /\ Trim(mission.bank.v) # <<>>
  THEN Trim(mission.bank.v) ELSE UNSPECIFIED

\* The banks one expense adds to allBanks, in order.
ExpenseBanks(mission, expense) ==
  IF expense.banks # <<>>
  THEN LET named == SelectSeq(expense.banks, LAMBDA b : Trim(b) # <<>>)
       IN  [i \in DOMAIN named |-> Trim(named[i])]
  ELSE <<FallbackBank(mission)>>

RECURSIVE ConcatAll(_)
ConcatAll(seqs) == IF seqs = <<>> THEN <<>> ELSE seqs[1] \o ConcatAll(Tail(seqs))

\* allBanks: the Set of bank names of a mission, in insertion order.
AllBanks(mission) ==
  IF mission.expenses # <<>>
  THEN Dedupe(ConcatAll([i \in DOMAIN mission.expenses |->
                           ExpenseBanks(mission, mission.expenses[i])]))
  ELSE <<FallbackBank(mission)>>

\* shouldIncludeExpense
ShouldIncludeExpense(mission, expense, bankName) ==
  IF expense.banks # <<>> THEN Includes(expense.banks, bankName)
  ELSE bankName = FallbackBank(mission)

\* distributionFactor
DistributionFactor(expense) ==
  IF expense.banks # <<>> THEN Len(expense.banks) ELSE 1

\* distributedAmount of the export: bankAllocations[bankName] when that
\* entry is truthy, the equal share otherwise.
ExportDistributedAmount(expense, bankName) ==
  LET a == AllocationOf(expense, bankName)
  IN  IF a.some /\ a.v # Zero THEN a.v
      ELSE RDivInt(expense.amount, DistributionFactor(expense))

\* distributedAmount of the period report: always the equal share.
PeriodDistributedAmount(expense, bankName) ==
  RDivInt(expense.amount, DistributionFactor(expense))

\* What the export attributes to bankName for one expense.
ExportShare(mission, expense, bankName) ==
  IF ShouldIncludeExpense(mission, expense, bankName)
  THEN ExportDistributedAmount(expense, bankName) ELSE Zero

\* What the period report attributes to bankName for one expense.
PeriodShare(mission, expense, bankName) ==
  IF ShouldIncludeExpense(mission, expense, bankName)
  THEN PeriodDistributedAmount(expense, bankName) ELSE Zero

\* The switch on normalizedType: the share goes to the subtotal of type.
RECURSIVE ExportTypeTotal(_, _, _, _)
ExportTypeTotal(mission, expenses, bankName, type) ==
  IF expenses = <<>> THEN Zero
  ELSE LET e == expenses[Len(expenses)]
           rest == ExportTypeTotal(mission, SubSeq(expenses, 1, Len(expenses) - 1),
                                   bankName, type)
       IN  IF normalizeExpenseType(e.type) = <<type>>
           THEN RAdd(rest, ExportShare(mission, e, bankName)) ELSE rest

RECURSIVE PeriodTypeTotal(_, _, _, _)
PeriodTypeTotal(mission, expenses, bankName, type) ==
  IF expenses = <<>> THEN Zero
  ELSE LET e == expenses[Len(expenses)]
           rest == PeriodTypeTotal(mission, SubSeq(expenses, 1, Len(expenses) - 1),
                                   bankName, type)
       IN  IF normalizeExpenseType(e.type) = <<type>>
           THEN RAdd(rest, PeriodShare(mission, e, bankName)) ELSE rest

\* bankMission: the five subtotals of one bank and their sum.
BankMission(mission, bankName) ==
  LET sub == [k \in 1..5 |->
                ExportTypeTotal(mission, mission.expenses, bankName, CanonicalTypes[k])]
  IN  [bankName |-> bankName, sub |-> sub, total |-> RSumSeq(sub)]

BankMissions(mission) ==
  LET banks == AllBanks(mission)
  IN  [i \in DOMAIN banks |-> BankMission(mission, banks[i])]

\* bankMissions.sort((a, b) => a.bankName.localeCompare(b.bankName)): a stable
\* sort, here by insertion.
RECURSIVE InsertSlot(_, _)
InsertSlot(sorted, x) ==
  IF sorted = <<>> THEN <<x>>
  ELSE IF StrLess(x.bankName, sorted[Len(sorted)].bankName)
  THEN Append(InsertSlot(SubSeq(sorted, 1, Len(sorted) - 1), x), sorted[Len(sorted)])
  ELSE Append(sorted, x)

\* A mutant of SortSlots: the slots left in encounter order.
SortSlotsUnsorted(slots) == slots

RECURSIVE SortSlots(_)
SortSlots(slots) ==
  IF slots = <<>> THEN <<>>
  ELSE InsertSlot(SortSlots(SubSeq(slots, 1, Len(slots) - 1)), slots[Len(slots)])

SortedBankMissions(mission) == SortSlots(BankMissions(mission))

\* A mutant of GrandTotal: the sum of the displayed slots only.
GrandTotalOfDisplayed(sorted) ==
  RSumSeq([i \in 1..(IF Len(sorted) < 4 THEN Len(sorted) ELSE 4) |-> sorted[i].total])

\* grandTotal: the reduce over ALL sorted bank missions.
GrandTotal(sorted) == RSumSeq([i \in DOMAIN sorted |-> sorted[i].total])

\* The weekday names, Sunday first (al'ahad = الأحد ... alsabt = السبت).
ArabicDays ==
  <<"al'ahad", "alithnayn", "althulatha'", "al'arbi'a'", "alkhamis",
    "aljumu'a", "alsabt">>

\* getArabicDayName of a string.  An ISO string yyyy-mm-dd goes through
\* new Date(year, month - 1, day), which carries months and days over and
\* reads a year below 100 as 19yy; any other string is read by the engine's
\* own Date parser, for which the model returns the '' of an invalid date.
getArabicDayName(dateInput) ==
  LET p == Split(dateInput, "-")
      iso == /\ Len(p) = 3 /\ \A i \in 1..3 : AllDigits(p[i])
             /\ Len(p[1]) = 4 /\ Len(p[2]) = 2 /\ Len(p[3]) = 2
  IN  IF ~iso THEN <<>>
      ELSE LET y0 == DigitsToNat(p[1])
               y1 == IF y0 < 100 THEN y0 + 1900 ELSE y0
               mi == y1 * 12 + DigitsToNat(p[2]) - 1
               day == DaysFromCivil(mi \div 12, (mi % 12) + 1, 1)
                        + DigitsToNat(p[3]) - 1
           IN  <<ArabicDays[((day + 4) % 7) + 1]>>

\* The labels of the five subtotal columns of a slot, in CanonicalTypes order.
ExportTypeLabels == <<"intiqalat", "rusum", "ikramiyat", "adawat maktabiya", "diyafa">>

\* The cells of bank slot i of an exported row.
SlotCells(sorted, i) ==
  LET present == i <= Len(sorted)
      keys == {BankCol(i), SlotTotalCol(i)} \cup {TypeCol(ExportTypeLabels[k], i) : k \in 1..5}
  IN  [key \in keys |->
         IF key = BankCol(i)
         THEN StrCell(IF present THEN sanitizeForExcel(sorted[i].bankName) ELSE NO_BANK)
         ELSE IF key = SlotTotalCol(i)
         THEN NumCell(IF present THEN sorted[i].total ELSE Zero)
         ELSE LET k == CHOOSE j \in 1..5 : TypeCol(ExportTypeLabels[j], i) = key
              IN  NumCell(IF present THEN sorted[i].sub[k] ELSE Zero)]

\* The six leading cells of an exported row.
HeadCells(mission) ==
  [key \in {Col("ism almuwazzaf"), Col("alkud"), Col("far"), Col("altarikh"),
            Col("alyawm"), Col("bayan")} |->
     CASE key = Col("ism almuwazzaf") -> StrCell(sanitizeForExcel(mission.employeeName))
       [] key = Col("alkud") -> NumCell(Rat(mission.employeeCode))
       [] key = Col("far") -> StrCell(sanitizeForExcel(mission.employeeBranch))
       [] key = Col("altarikh") -> StrCell(mission.missionDate)
       [] key = Col("alyawm") -> StrCell(getArabicDayName(mission.missionDate))
       [] key = Col("bayan") ->
            StrCell(sanitizeForExcel(IF mission.statement.some
                                     THEN mission.statement.v ELSE <<>>))]

\* One exported row: the head, the four slots and the grand total.
ExportRow(mission) ==
  LET sorted == SortedBankMissions(mission)
      head == HeadCells(mission)
      keys == DOMAIN head \cup DOMAIN SlotCells(sorted, 1) \cup DOMAIN SlotCells(sorted, 2)
                \cup DOMAIN SlotCells(sorted, 3) \cup DOMAIN SlotCells(sorted, 4)
                \cup {GrandTotalCol}
  IN  [key \in keys |->
         IF key \in DOMAIN head THEN head[key]
         ELSE IF key = GrandTotalCol THEN NumCell(GrandTotal(sorted))
         ELSE SlotCells(sorted, key[2])[key]]

\* exportRows of exportMissionsToExcel
ExportRows(missions) == [i \in DOMAIN missions |-> ExportRow(missions[i])]

\* ------------------------------------------------------------------ import
\* isDetailedExportRow
isDetailedExportRow(row) ==
  \/ \E i \in 1..4 : Truthy(Cell(row, BankCol(i)))
  \/ \E k \in DOMAIN detailedExportTypeMapping : \E i \in 1..4 :
       TypeCol(detailedExportTypeMapping[k][1], i) \in DOMAIN row

\* String(row[a] || row[b] || '').trim()
TrimmedText(row, keys) == Trim(CellToString(OrCells(row, keys, StrCell(<<>>))))

\* parsedDate || today
MissionDateOf(row) ==
  With(tryParseDate(OrCellsLast(row, DateCols)),
       LAMBDA parsedDate :
         IF parsedDate.some /\ parsedDate.v # <<>> THEN parsedDate.v ELSE TodayISO)

\* generateExpenseId: a fresh id, here the pair (a, b) under the prefix
\* "expense_"; the ids of the editing page have the prefix "expense-".
GeneratedExpenseId(a, b) == [pre |-> "expense_", a |-> a, b |-> b]

\* expensesByType, the sequence of its entries in insertion order, after
\* "if (!expensesByType[type]) expensesByType[type] = {...}"
EnsureType(acc, type) ==
  IF \E j \in DOMAIN acc : acc[j].type = type THEN acc
  ELSE Append(acc, [type |-> type, amount |-> Zero, banks |-> <<>>,
                    bankAllocations |-> <<>>])

\* bankAllocations after "if (!a[bankName]) a[bankName] = 0; a[bankName] += amount"
AddAllocation(allocs, bankName, amount) ==
  IF \E x \in DOMAIN allocs : allocs[x].bank = bankName
  THEN [x \in DOMAIN allocs |->
          IF allocs[x].bank = bankName
          THEN [bank |-> bankName, amount |-> RAdd(allocs[x].amount, amount)]
          ELSE allocs[x]]
  ELSE Append(allocs, [bank |-> bankName, amount |-> amount])

\* The entry of a type after an amount of a bank is added to it
AddExpense(entry, bankName, amount) ==
  [type |-> entry.type,
   amount |-> RAdd(entry.amount, amount),
   banks |-> Append(entry.banks, bankName),
   bankAllocations |-> AddAllocation(entry.bankAllocations, bankName, amount)]

AddToType(acc, type, bankName, amount) ==
  [j \in DOMAIN acc |->
     IF acc[j].type = type THEN AddExpense(acc[j], bankName, amount) ELSE acc[j]]

\* A mutant of DetailedAmount: the placeholder bank is read as a bank.
DetailedAmountOfAnyName(acc, type, bankName, amount) ==
  IF bankName = <<>> \/ ~RLt(Zero, amount) THEN acc
  ELSE AddToType(EnsureType(acc, type), type, bankName, amount)

\* The body of the two loops for one bank name, one type and its amount
DetailedAmount(acc, type, bankName, amount) ==
  IF bankName = <<>> \/ bankName = NO_BANK \/ ~RLt(Zero, amount) THEN acc
  ELSE AddToType(EnsureType(acc, type), type, bankName, amount)

\* One pass of the inner loop of the detailed parser: slot i, mapping entry k.
DetailedStep(row, acc, i, k) ==
  DetailedAmount(acc, <<detailedExportTypeMapping[k][2]>>,
                 TrimmedText(row, <<BankCol(i)>>),
                 parseNumber(Cell(row, TypeCol(detailedExportTypeMapping[k][1], i))))

\* The loops "for i = 1..4, for each mapping entry": step number t of 24.
RECURSIVE DetailedFold(_, _)
DetailedFold(row, t) ==
  IF t = 0 THEN <<>>
  ELSE DetailedStep(row, DetailedFold(row, t - 1),
                    ((t - 1) \div Len(detailedExportTypeMapping)) + 1,
                    ((t - 1) % Len(detailedExportTypeMapping)) + 1)

expensesByType(row) == DetailedFold(row, 4 * Len(detailedExportTypeMapping))

\* uniqueBanks of the detailed parser
UniqueBanks(row) ==
  LET names == [i \in 1..4 |-> TrimmedText(row, <<BankCol(i)>>)]
  IN  Dedupe(SelectSeq(names, LAMBDA b : b # <<>> /\ b # NO_BANK))

\* Object.entries(expensesByType).map(...): the expenses of the mission
DetailedExpenses(byType, newId) ==
  [j \in DOMAIN byType |->
     [id |-> GeneratedExpenseId(newId, j),
      type |-> byType[j].type,
      amount |-> byType[j].amount,
      banks |-> Dedupe(byType[j].banks),
      bankAllocations |-> [some |-> TRUE, v |-> byType[j].bankAllocations]]]

\* A mutant of DetailedRecord: the stated total of the sheet is stored.
DetailedRecordWithSheetTotal(row, newId, expenses, uniqueBanks, statement) ==
  [id |-> newId,
   employeeName |-> TrimmedText(row, NameCols),
   employeeCode |-> ParseIntOr0(OrCellsLast(row, CodeCols)),
   employeeBranch |-> TrimmedText(row, BranchCols),
   missionDate |-> MissionDateOf(row),
   bank |-> IF Len(uniqueBanks) = 1 THEN Str(uniqueBanks[1]) ELSE Null,
   statement |-> IF statement # <<>> THEN Str(statement) ELSE Null,
   totalAmount |-> parseNumber(Cell(row, GrandTotalCol)),
   expenses |-> expenses,
   createdAt |-> newId]

DetailedRecord(row, newId, expenses, uniqueBanks, statement) ==
  [id |-> newId,
   employeeName |-> TrimmedText(row, NameCols),
   employeeCode |-> ParseIntOr0(OrCellsLast(row, CodeCols)),
   employeeBranch |-> TrimmedText(row, BranchCols),
   missionDate |-> MissionDateOf(row),
   bank |-> IF Len(uniqueBanks) = 1 THEN Str(uniqueBanks[1]) ELSE Null,
   statement |-> IF statement # <<>> THEN Str(statement) ELSE Null,
   totalAmount |-> SumAmounts(expenses),
   expenses |-> expenses,
   createdAt |-> newId]

\* The mission the detailed parser builds from a row.
DetailedMission(row, newId) ==
  DetailedRecord(row, newId, DetailedExpenses(expensesByType(row), newId),
                 UniqueBanks(row), TrimmedText(row, DetailedStatementCols))

\* value ? String(value).trim() : null
TrimmedOrNull(c) == IF Truthy(c) THEN Str(Trim(CellToString(c))) ELSE Null

\* The mission the simple parser builds from a row.
SimpleMission(row, newId) ==
  [id |-> newId,
   employeeName |-> TrimmedText(row, NameCols),
   employeeCode |-> ParseIntOr0(OrCellsLast(row, CodeCols)),
   employeeBranch |-> TrimmedText(row, BranchCols),
   missionDate |-> MissionDateOf(row),
   bank |-> TrimmedOrNull(OrCells(row, SimpleBankCols, Undefined)),
   statement |-> TrimmedOrNull(OrCells(row, SimpleStatementCols, Undefined)),
   totalAmount |-> ParseFloatOr0(OrCells(row, SimpleTotalCols, StrCell(<<"0">>))),
   expenses |-> <<>>,
   createdAt |-> newId]

\* The mission of one row of the missions sheet.
RowMission(row, newId) ==
  IF isDetailedExportRow(row) THEN DetailedMission(row, newId)
  ELSE SimpleMission(row, newId)

\* A mutant of ParsedMissions: rows without employee name are skipped.
ParsedMissionsOfNamedRows(missionData, firstId) ==
  SelectSeq([i \in DOMAIN missionData |-> RowMission(missionData[i], firstId + i - 1)],
            LAMBDA m : m.employeeName # <<>>)

\* importedMissions after the loop over missionData; firstId is the id the
\* first row gets.
ParsedMissions(missionData, firstId) ==
  [i \in DOMAIN missionData |-> RowMission(missionData[i], firstId + i - 1)]

\* originalToNewIdMap, as the set of its <<original id, new id>> entries: a
\* later row with the same original id overwrites the entry of an earlier one.
OriginalToNewIdMap(missionData, firstId) ==
  LET orig(i) == OrCellsLast(missionData[i], MissionIdCols)
      mapped == {i \in DOMAIN missionData :
                   ~isDetailedExportRow(missionData[i]) /\ Truthy(orig(i))}
      last == {i \in mapped :
                 \A j \in mapped : CellToString(orig(j)) = CellToString(orig(i)) => j <= i}
  IN  {<<CellToString(orig(i)), firstId + i - 1>> : i \in last}

\* String(banksStr).split(/[,،;\n]/).map(trim).filter(bank => bank)
RECURSIVE SplitBanks(_)
SplitBanks(s) ==
  LET seps == {",", "ar,", ";", "\n"}
  IN  IF \A i \in DOMAIN s : s[i] \notin seps
      THEN (IF Trim(s) = <<>> THEN <<>> ELSE <<Trim(s)>>)
      ELSE LET k == CHOOSE i \in DOMAIN s :
                      s[i] \in seps /\ \A j \in 1..(i - 1) : s[j] \notin seps
               head == Trim(SubSeq(s, 1, k - 1))
           IN  (IF head = <<>> THEN <<>> ELSE <<head>>)
                 \o SplitBanks(SubSeq(s, k + 1, Len(s)))

\* a || b || 0 of two parseFloat results
FirstNonZero(a1, a2) ==
  IF a1.some /\ a1.v # Zero THEN a1.v
  ELSE IF a2.some /\ a2.v # Zero THEN a2.v ELSE Zero

\* The expense one row of the expenses sheet gives; r is the row's number.
ExpenseOfRow(row, base, r) ==
  [id |-> GeneratedExpenseId(base, 0 - r),
   type |-> normalizeExpenseType(CellToString(
              OrCells(row, ExpenseTypeCols, StrCell(<<"transportation">>)))),
   amount |-> FirstNonZero(ParseFloat(Cell(row, Col("almablagh"))),
                           ParseFloat(Cell(row, Col("alqima")))),
   banks |-> SplitBanks(CellToString(OrCells(row, ExpenseBanksCols, StrCell(<<>>)))),
   bankAllocations |-> NoAllocations]

\* expensesByMission[key]: the expenses of the rows whose mission id prints
\* as key, in row order.
ExpensesByMission(expenseData, base, key) ==
  LET mid(r) == OrCellsLast(expenseData[r], MissionIdCols)
      all == [r \in DOMAIN expenseData |->
                IF Truthy(mid(r)) /\ CellToString(mid(r)) = key
                THEN <<ExpenseOfRow(expenseData[r], base, r)>> ELSE <<>>]
  IN  ConcatAll(all)

\* The mission after its expenses are replaced by the linked ones, if any
LinkedMission(m, linked) ==
  IF linked = <<>> THEN m
  ELSE [m EXCEPT !.expenses = linked, !.totalAmount = SumAmounts(linked)]

\* The original ids that the map sends to the new id
OriginalIds(idMap, newId) == {e[1] : e \in {x \in idMap : x[2] = newId}}

\* The linking pass over importedMissions.
LinkExpenses(missions, idMap, expenseData, base) ==
  [i \in DOMAIN missions |->
     IF OriginalIds(idMap, missions[i].id) = {} THEN missions[i]
     ELSE LinkedMission(missions[i],
                        ExpensesByMission(expenseData, base,
                                          CHOOSE k \in OriginalIds(idMap, missions[i].id) : TRUE))]

\* validateExcelFile: the MIME types and name endings it accepts, the size cap
AllowedTypes ==
  {"application/vnd.openxmlformats-officedocument.spreadsheetml.sheet",
   "application/vnd.ms-excel", "application/xlsx", "application/xls"}

MaxFileSize == 10 * 1024 * 1024

validateExcelFile(file) ==
  IF ~(file.type \in AllowedTypes \/ file.ending \in {".xlsx", ".xls"})
  THEN [isValid |-> FALSE, message |-> "unsupported file type"]
  ELSE IF file.size > MaxFileSize
  THEN [isValid |-> FALSE, message |-> "file too large"]
  ELSE IF file.size = 0
  THEN [isValid |-> FALSE, message |-> "file is empty"]
  ELSE [isValid |-> TRUE, message |-> ""]

\* Sheet names are whole words; those that contain مأمور or "mission", and
\* those that contain مصروف or "expense" (taqrir almamuriyat = تقرير
\* المأموريات, the name the export gives its sheet; almasrufat = المصروفات).
IsMissionSheetName(name) == name \in {"taqrir almamuriyat", "Missions", "mission expenses"}
IsExpenseSheetName(name) == name \in {"almasrufat", "Expenses", "mission expenses"}

\* workbook.SheetNames.find(pred): the index of the first match, 0 for none
FindSheet(sheets, Pred(_)) ==
  IF \E i \in DOMAIN sheets : Pred(sheets[i].name)
  THEN CHOOSE i \in DOMAIN sheets :
         Pred(sheets[i].name) /\ \A j \in 1..(i - 1) : ~Pred(sheets[j].name)
  ELSE 0

\* A mutant of AllMissions: the import replaces the collection.
AllMissionsReplacing(currentMissions, importedMissions) == importedMissions

\* allMissions = [...currentMissions, ...importedMissions]
AllMissions(currentMissions, importedMissions) == currentMissions \o importedMissions

\* What importMissionsFromExcel returns and what it hands to setMissions
\* (stored: the collection afterwards), for a file, the stored missions and
\* the next fresh mission id.
\* A mutant of ImportFailure: a failed import leaves an empty collection.
ImportFailureClearing(message, currentMissions) ==
  [success |-> FALSE, message |-> message, missions |-> <<>>, stored |-> <<>>]

\* return { success: false, message }: nothing is handed to setMissions
ImportFailure(message, currentMissions) ==
  [success |-> FALSE, message |-> message, missions |-> <<>>,
   stored |-> currentMissions]

ImportSuccess(currentMissions, importedMissions) ==
  [success |-> TRUE, message |-> "imported", missions |-> importedMissions,
   stored |-> AllMissions(currentMissions, importedMissions)]

\* importedMissions: the parsed rows of the missions sheet, linked with the
\* rows of the expenses sheet when the workbook has one (ei > 0).
ImportedMissions(sheets, missionData, ei, firstId) ==
  With(ParsedMissions(missionData, firstId),
       LAMBDA parsed :
         IF ei = 0 THEN parsed
         ELSE LinkExpenses(parsed, OriginalToNewIdMap(missionData, firstId),
                           sheets[ei].data, firstId))

\* The import of a readable workbook whose missions sheet is sheet mi (0: none)
ImportWorkbook(sheets, mi, currentMissions, firstId) ==
  IF mi = 0 THEN ImportFailure("no missions sheet", currentMissions)
  ELSE IF sheets[mi].data = <<>> THEN ImportFailure("no mission data", currentMissions)
  ELSE ImportSuccess(currentMissions,
                     ImportedMissions(sheets, sheets[mi].data,
                                      FindSheet(sheets, IsExpenseSheetName), firstId))

ImportOutcome(file, currentMissions, firstId) ==
  IF ~validateExcelFile(file).isValid
  THEN ImportFailure(validateExcelFile(file).message, currentMissions)
  ELSE IF ~file.readable THEN ImportFailure("import failed", currentMissions)
  ELSE ImportWorkbook(file.sheets, FindSheet(file.sheets, IsMissionSheetName),
                      currentMissions, firstId)

\* ------------------------------------------------------------ period report
\* new Date(text).  An ISO date yyyy-mm-dd of the calendar is UTC midnight of
\* that day, here its day number; '' is an invalid date; how any other text
\* is read is left to the engine (see PeriodReport).
IsISODate(text) ==
  LET p == Split(text, "-")
  IN  /\ Len(p) = 3 /\ \A i \in 1..3 : AllDigits(p[i])
      /\ Len(p[1]) = 4 /\ Len(p[2]) = 2 /\ Len(p[3]) = 2
      /\ DigitsToNat(p[2]) \in 1..12
      /\ DigitsToNat(p[3]) \in 1..DaysInMonth(DigitsToNat(p[1]), DigitsToNat(p[2]))

DateValue(text) ==
  LET p == Split(text, "-")
  IN  DaysFromCivil(DigitsToNat(p[1]), DigitsToNat(p[2]), DigitsToNat(p[3]))

InPeriodExclusive(missionDate, fromDate, toDate) ==
  /\ DateValue(missionDate) >= DateValue(fromDate)
  /\ DateValue(missionDate) < DateValue(toDate)

\* missionDate >= from && missionDate <= to, for ISO dates
InPeriod(missionDate, fromDate, toDate) ==
  /\ DateValue(missionDate) >= DateValue(fromDate)
  /\ DateValue(missionDate) <= DateValue(toDate)

\* Math.round(x * 100) / 100
Round2(x) == Norm((200 * x.n + x.d) \div (2 * x.d), 100)

\* `${mission.employeeCode}-${bankName}`
ReportKey(mission, bankName) == IntToStr(mission.employeeCode) \o <<"-">> \o bankName

\* One pass of "Array.from(allBanks).forEach": the bank bankName of mission
\* is added to employeeBankData, the sequence of its entries.
ReportStep(data, mission, bankName) ==
  LET key == ReportKey(mission, bankName)
      known == \E j \in DOMAIN data : data[j].key = key
      data1 == IF known THEN data
               ELSE Append(data, [key |-> key,
                                  employeeName |-> mission.employeeName,
                                  employeeCode |-> mission.employeeCode,
                                  employeeBranch |-> mission.employeeBranch,
                                  bankName |-> bankName,
                                  sub |-> [k \in 1..5 |-> Zero]])
      j == CHOOSE x \in DOMAIN data1 : data1[x].key = key
  IN  [data1 EXCEPT ![j].sub =
         [k \in 1..5 |->
            RAdd(data1[j].sub[k],
                 PeriodTypeTotal(mission, mission.expenses, bankName, CanonicalTypes[k]))]]

RECURSIVE ReportBanks(_, _, _)
ReportBanks(data, mission, banks) ==
  IF banks = <<>> THEN data
  ELSE ReportBanks(ReportStep(data, mission, banks[1]), mission, Tail(banks))

\* employeeBankData after filteredMissions.forEach
RECURSIVE EmployeeBankData(_)
EmployeeBankData(filteredMissions) ==
  IF filteredMissions = <<>> THEN <<>>
  ELSE LET m == filteredMissions[Len(filteredMissions)]
       IN  ReportBanks(EmployeeBankData(SubSeq(filteredMissions, 1,
                                               Len(filteredMissions) - 1)),
                       m, AllBanks(m))

\* reportData: the rows of the report sheet
ReportData(filteredMissions) ==
  LET data == EmployeeBankData(filteredMissions)
  IN  [j \in DOMAIN data |->
         [employeeName |-> data[j].employeeName,
          employeeCode |-> data[j].employeeCode,
          employeeBranch |-> data[j].employeeBranch,
          bankName |-> data[j].bankName,
          sub |-> [k \in 1..5 |-> Round2(data[j].sub[k])]]]

\* ------------------------------------------------------------ the store
\* createMission of lib/localStorage.ts: the stored collection afterwards.
\* The new mission gets the fresh id newId; createdAt is the logical time of
\* the creation, the number of ids handed out so far.
createMission(stored, missionData, newId) ==
  Append(stored,
         [id |-> newId,
          employeeCode |-> missionData.employeeCode,
          employeeName |-> missionData.employeeName,
          employeeBranch |-> missionData.employeeBranch,
          missionDate |-> missionData.missionDate,
          bank |-> IF missionData.bank.some /\ missionData.bank.v # <<>>
                   THEN missionData.bank ELSE Null,
          statement |-> IF missionData.statement.some /\ missionData.statement.v # <<>>
                        THEN missionData.statement ELSE Null,
          expenses |-> missionData.expenses,
          totalAmount |-> missionData.totalAmount,
          createdAt |-> newId])

\* A Partial<InsertMission>: every field is [some |-> BOOLEAN, v |-> value].
NoUpdates ==
  [employeeCode |-> [some |-> FALSE, v |-> 0],
   employeeName |-> Null, employeeBranch |-> Null, missionDate |-> Null,
   statement |-> Null,
   expenses |-> [some |-> FALSE, v |-> <<>>],
   totalAmount |-> [some |-> FALSE, v |-> Zero]]

\* The merge of updateMission: updates.x ?? old.x (statement: !== undefined)
MergedMission(old, updates) ==
  [old EXCEPT
     !.employeeCode = IF updates.employeeCode.some THEN updates.employeeCode.v ELSE @,
     !.employeeName = IF updates.employeeName.some THEN updates.employeeName.v ELSE @,
     !.employeeBranch = IF updates.employeeBranch.some THEN updates.employeeBranch.v ELSE @,
     !.missionDate = IF updates.missionDate.some THEN updates.missionDate.v ELSE @,
     !.statement = IF updates.statement.some THEN updates.statement ELSE @,
     !.expenses = IF updates.expenses.some THEN updates.expenses.v ELSE @,
     !.totalAmount = IF updates.totalAmount.some THEN updates.totalAmount.v ELSE @]

\* missions.findIndex(mission => mission.id === id), 0 for -1
FindIndex(list, id) ==
  IF \E i \in DOMAIN list : list[i].id = id
  THEN CHOOSE i \in DOMAIN list : list[i].id = id /\ \A j \in 1..(i - 1) : list[j].id # id
  ELSE 0

\* An update that stores the merge of an unknown id as a new mission
updateMissionUpserting(stored, id, updates) ==
  IF FindIndex(stored, id) = 0
  THEN IF stored = <<>> THEN stored
       ELSE Append(stored, [MergedMission(stored[1], updates) EXCEPT !.id = id])
  ELSE [stored EXCEPT ![FindIndex(stored, id)] = MergedMission(@, updates)]

\* updateMission of lib/localStorage.ts: the stored collection afterwards
updateMission(stored, id, updates) ==
  IF FindIndex(stored, id) = 0 THEN stored
  ELSE [stored EXCEPT ![FindIndex(stored, id)] = MergedMission(@, updates)]

\* deleteMission of lib/localStorage.ts: the stored collection afterwards
deleteMission(stored, id) == SelectSeq(stored, LAMBDA m : m.id # id)

\* updatedData of updateActiveMission: the updates with the recomputed total
UpdatedData(activeMission, updates) ==
  [updates EXCEPT
     !.totalAmount =
        [some |-> TRUE,
         v |-> SumAmounts(IF updates.expenses.some
                          THEN updates.expenses.v ELSE activeMission.expenses)]]

\* hasChanges of updateActiveMission
HasChanges(activeMission, updatedData) ==
  MergedMission(activeMission, updatedData) # activeMission

\* ------------------------------------------------------------ the inputs
\* The inputs the model draws from: bank names, spreadsheet rows and files,
\* the expense lists the editing page saves, the dates of the date fields.
D(y, m, d) == formatDateParts(y, m, d)

UiExpenseId(k) == [pre |-> "expense-", a |-> k, b |-> 0]

UiExpense(k, type, amount, banks) ==
  [id |-> UiExpenseId(k), type |-> <<type>>, amount |-> Rat(amount),
   banks |-> banks, bankAllocations |-> NoAllocations]

\* Expense lists as the editing page builds them: canonical types, banks of
\* the bank list in the order they were ticked.
SavedExpenses ==
  { <<UiExpense(1, "fees", 40, <<>>),
      UiExpense(2, "hospitality", 100, << <<"B">>, <<"A">>, <<"C">> >>)>>,
    <<UiExpense(1, "tips", 60,
                << <<"E">>, <<"D">>, <<"C">>, <<"B">>, <<"A">> >>)>> }

\* The employees of the reference data the page looks up.
Employees == { [code |-> 7, name |-> <<"Ali">>, branch |-> <<"Cairo">>] }

\* The values of the page's date field, and of the report's two date fields.
DateInputs == { D(2024, 3, 16), <<>> }
PeriodInputs == { D(2024, 3, 15), D(2024, 3, 16), <<>> }

Row(cells) ==
  [key \in {cells[i][1] : i \in DOMAIN cells} |->
     cells[CHOOSE i \in DOMAIN cells : cells[i][1] = key][2]]

\* A row in the detailed layout: two banks that share "transportation"
\* unequally (30 and 70) and a stated total.
DetailedRowA ==
  Row(<< <<Col("ism almuwazzaf"), StrCell(<<"Ali">>)>>,
         <<Col("alkud"), NumCell(Rat(7))>>,
         <<Col("far"), StrCell(<<"Cairo">>)>>,
         <<Col("altarikh"), StrCell(D(2024, 3, 15))>>,
         <<BankCol(1), StrCell(<<"A">>)>>,
         <<TypeCol("intiqalat", 1), NumCell(Rat(30))>>,
         <<BankCol(2), StrCell(<<"B">>)>>,
         <<TypeCol("intiqalat", 2), NumCell(Rat(70))>>,
         <<TypeCol("rusum", 2), NumCell(Rat(10))>>,
         <<BankCol(3), StrCell(NO_BANK)>>,
         <<GrandTotalCol, NumCell(Rat(110))>> >>)

\* A row in the detailed layout without name, code and branch, with a date
\* that is no calendar date, the bank A in two slots (once padded), both
\* spellings of the tips label, a negative subtotal, a subtotal under the
\* placeholder bank, a subtotal in a slot without bank, and a stated total
\* that is not the sum.
DetailedRowB ==
  Row(<< <<Col("altarikh"), StrCell(<<"3", "1", "/", "0", "2", "/", "2", "0", "2", "4">>)>>,
         <<BankCol(1), StrCell(<<"A">>)>>,
         <<TypeCol("ikramiyat", 1), NumCell(Rat(20))>>,
         <<TypeCol("'ikramiyat", 1), NumCell(Rat(5))>>,
         <<TypeCol("rusum", 1), StrCell(<<"-", "3">>)>>,
         <<BankCol(2), StrCell(<<" ", "A", " ">>)>>,
         <<TypeCol("ikramiyat", 2), NumCell(Rat(5))>>,
         <<BankCol(3), StrCell(NO_BANK)>>,
         <<TypeCol("rusum", 3), NumCell(Rat(9))>>,
         <<TypeCol("diyafa", 4), NumCell(Rat(4))>>,
         <<GrandTotalCol, NumCell(Rat(99))>> >>)

\* Rows in the simple layout: a name that starts with "=", a date held as a
\* spreadsheet serial number, a stated total.
SimpleRowA ==
  Row(<< <<Col("raqm almamuriya"), NumCell(Rat(1))>>,
         <<Col("ism almuwazzaf"), StrCell(<<"=", "Sam">>)>>,
         <<Col("kud almuwazzaf"), NumCell(Rat(3))>>,
         <<Col("alfar"), StrCell(<<"Giza">>)>>,
         <<Col("tarikh almamuriya"), NumCell(Rat(45000))>>,
         <<Col("albank"), StrCell(<<"B">>)>>,
         <<Col("ijmali almasrufat"), NumCell(Rat(100))>> >>)

SimpleRowB ==
  Row(<< <<Col("raqm almamuriya"), NumCell(Rat(2))>>,
         <<Col("ism almuwazzaf"), StrCell(<<"Mona">>)>>,
         <<Col("kud almuwazzaf"), StrCell(<<"1", "2">>)>>,
         <<Col("alfar"), StrCell(<<" ", "Giza", " ">>)>>,
         <<Col("tarikh almamuriya"), NumCell(Rat(0 - 700000))>>,
         <<Col("al'ijmali"), StrCell(<<"4", "0">>)>> >>)

\* Rows of an expenses sheet: a bank named twice, five banks, an unknown
\* type without banks, a mission id that no mission row has.
ExpenseRowA ==
  Row(<< <<Col("raqm almamuriya"), NumCell(Rat(1))>>,
         <<Col("naw almasruf"), StrCell(<<"rusum">>)>>,
         <<Col("almablagh"), NumCell(Rat(100))>>,
         <<Col("albunuk"), StrCell(<<"A", ",", " ", "A">>)>> >>)

ExpenseRowB ==
  Row(<< <<Col("raqm almamuriya"), NumCell(Rat(2))>>,
         <<Col("naw almasruf"), StrCell(<<"intiqalat">>)>>,
         <<Col("almablagh"), NumCell(Rat(60))>>,
         <<Col("albunuk"), StrCell(<<"A", ",", "B", ",", "C", ",", "D", ",", "E">>)>> >>)

ExpenseRowC ==
  Row(<< <<Col("raqm almamuriya"), NumCell(Rat(2))>>,
         <<Col("alnaw"), StrCell(<<"weird">>)>>,
         <<Col("alqima"), NumCell(Rat(5))>> >>)

ExpenseRowD ==
  Row(<< <<Col("raqm almamuriya"), NumCell(Rat(9))>>,
         <<Col("almablagh"), NumCell(Rat(1))>>,
         <<Col("albank"), StrCell(<<"=", "X">>)>> >>)

\* A mission row and an expense row that share the identifier 0.
SimpleRowC ==
  Row(<< <<Col("raqm almamuriya"), NumCell(Zero)>>,
         <<Col("ism almuwazzaf"), StrCell(<<"Zed">>)>>,
         <<Col("al'ijmali"), NumCell(Rat(7))>> >>)

ExpenseRowE ==
  Row(<< <<Col("raqm almamuriya"), NumCell(Zero)>>,
         <<Col("naw almasruf"), StrCell(<<"rusum">>)>>,
         <<Col("almablagh"), NumCell(Rat(7))>>,
         <<Col("albank"), StrCell(<<"A">>)>> >>)

XlsxType == "application/vnd.openxmlformats-officedocument.spreadsheetml.sheet"

Workbook(sheets) ==
  [type |-> XlsxType, ending |-> ".xlsx", size |-> 4096, readable |-> TRUE,
   sheets |-> sheets]

Sheet(name, data) == [name |-> name, data |-> data]

\* The files a user may pick for the import.
Files ==
  { Workbook(<<Sheet("taqrir almamuriyat", <<DetailedRowA>>)>>),
    Workbook(<<Sheet("taqrir almamuriyat", <<DetailedRowB>>)>>),
    Workbook(<<Sheet("Missions", <<SimpleRowA>>),
               Sheet("Expenses", <<ExpenseRowA, ExpenseRowD>>)>>),
    Workbook(<<Sheet("almasrufat", <<ExpenseRowB, ExpenseRowC>>),
               Sheet("Missions", <<SimpleRowB>>)>>),
    Workbook(<<Sheet("Missions", <<SimpleRowB, SimpleRowA>>)>>),
    Workbook(<<Sheet("Missions", <<SimpleRowC>>), Sheet("Expenses", <<ExpenseRowE>>)>>),
    Workbook(<<Sheet("Sheet1", <<SimpleRowA>>)>>),
    Workbook(<<Sheet("Missions", <<>>)>>),
    [Workbook(<<Sheet("Missions", <<SimpleRowA>>)>>) EXCEPT !.readable = FALSE],
    [Workbook(<<Sheet("Missions", <<SimpleRowA>>)>>) EXCEPT !.size = 0],
    [Workbook(<<Sheet("Missions", <<SimpleRowA>>)>>) EXCEPT !.size = MaxFileSize + 1],
    [Workbook(<<Sheet("Missions", <<SimpleRowA>>)>>)
       EXCEPT !.type = "text/plain", !.ending = ".txt"] }

\* The file the export writes: one sheet with the exported rows.
ExportedWorkbook(rows) == Workbook(<<Sheet("taqrir almamuriyat", rows)>>)

\* ------------------------------------------------------------ the state
VARIABLES
  storage,   \* localStorage["missions"]: the stored mission collection
  missions,  \* the missions state of the useMissions hook
  nextId,    \* the number of the next fresh mission id
  lastOp,    \* the last operation: its kind, its inputs and its outputs
  backup,    \* localStorage["missions_backup"] and ["missions_backup_ttl"]
  now,       \* Date.now(), in units of ten minutes
  page       \* the editing page: activeMissionId, localExpenses, expenseCounter

vars == <<storage, missions, nextId, lastOp, backup, now, page>>

\* The state of the editing page before a mission is active: useState(null),
\* useState([]), useState(1); 0 stands for null
NoPage == [activeMissionId |-> 0, localExpenses |-> <<>>, expenseCounter |-> 1]

\* Neither backup key is in localStorage
NoBackup ==
  [data |-> [some |-> FALSE, missions |-> <<>>, timestamp |-> 0],
   ttl |-> [some |-> FALSE, v |-> 0]]

NoFile == Workbook(<<>>)

\* The record of an operation; the fields an operation does not use keep
\* these values.  An import records its file, its result and the store it
\* read (before); an export and a report record the missions they were given
\* (src), of which their output is a function; an import of an exported file
\* records the missions that file was exported from; a report records its
\* period, the from and to dates; a call of the store with an id records the
\* id, and a route its HTTP status.
Op(kind) ==
  [kind |-> kind, before |-> <<>>, file |-> NoFile,
   success |-> FALSE, message |-> "", imported |-> <<>>, src |-> <<>>,
   period |-> <<>>, id |-> 0, status |-> 0]

Init ==
  /\ storage = <<>>
  /\ missions = <<>>
  /\ nextId = 1
  /\ backup = NoBackup
  /\ now = 0
  /\ page = NoPage
  /\ lastOp = Op("init")

\* createNewMissionAction -> createNewMission -> createMission
CreateNewMission ==
  /\ Len(storage) < MaxMissions
  /\ nextId <= MaxIds
  /\ LET newMissionData ==
           [employeeCode |-> 0, employeeName |-> <<>>, employeeBranch |-> <<>>,
            missionDate |-> TodayISO, bank |-> Null, statement |-> Str(<<>>),
            expenses |-> <<>>, totalAmount |-> Zero]
         stored == createMission(storage, newMissionData, nextId)
     IN  /\ storage' = stored
         /\ missions' = Append(missions, stored[Len(stored)])
  /\ nextId' = nextId + 1
  /\ UNCHANGED <<backup, now, page>>
  /\ lastOp' = Op("create")

\* updateActiveMission(updates) -> updateMissionById -> updateMission, for the
\* active mission missions[i].
UpdateActiveMission(i, updates) ==
  LET activeMission == missions[i]
      updatedData == UpdatedData(activeMission, updates)
      stored == updateMission(storage, activeMission.id, updatedData)
  IN  /\ HasChanges(activeMission, updatedData)
      /\ storage' = stored
      /\ missions' = IF FindIndex(storage, activeMission.id) = 0 THEN missions
                     ELSE [k \in DOMAIN missions |->
                             IF missions[k].id = activeMission.id
                             THEN stored[FindIndex(stored, activeMission.id)]
                             ELSE missions[k]]
      /\ UNCHANGED nextId
      /\ UNCHANGED <<backup, now, page>>
      /\ lastOp' = Op("update")

\* handleEmployeeChange(employee)
HandleEmployeeChange(i, employee) ==
  UpdateActiveMission(i, [NoUpdates EXCEPT
                            !.employeeCode = [some |-> TRUE, v |-> employee.code],
                            !.employeeName = Str(employee.name),
                            !.employeeBranch = Str(employee.branch)])

\* saveChanges with the local statement, date and expenses of the page
SaveChanges(i, localStatement, localMissionDate, localExpenses) ==
  UpdateActiveMission(i, [NoUpdates EXCEPT
                            !.statement = Str(localStatement),
                            !.missionDate = Str(localMissionDate),
                            !.expenses = [some |-> TRUE, v |-> localExpenses]])

\* A Partial<ExpenseItem> as the expense editor passes it to onUpdateExpense:
\* a type, or an amount, or a banks list; the last two come with
\* bankAllocations: undefined (clear).
NoEdit ==
  [type |-> Null, amount |-> [some |-> FALSE, v |-> Zero],
   banks |-> [some |-> FALSE, v |-> <<>>], clear |-> FALSE]

TypeChange(value) == [NoEdit EXCEPT !.type = Str(<<value>>)]

AmountChangeKeepingAllocations(numericValue) ==
  [NoEdit EXCEPT !.amount = [some |-> TRUE, v |-> numericValue]]

AmountChange(numericValue) ==
  [NoEdit EXCEPT !.amount = [some |-> TRUE, v |-> numericValue], !.clear = TRUE]

\* A mutant of BankToggle: the allocations are not cleared.
BankToggleKeepingAllocations(expense, bankName) ==
  [NoEdit EXCEPT
     !.banks = [some |-> TRUE,
                v |-> IF ~Includes(expense.banks, bankName)
                      THEN Append(expense.banks, bankName)
                      ELSE SelectSeq(expense.banks, LAMBDA b : b # bankName)]]

\* onCheckedChange of the checkbox of a bank: checked is the new state
BankToggle(expense, bankName) ==
  [NoEdit EXCEPT
     !.banks = [some |-> TRUE,
                v |-> IF ~Includes(expense.banks, bankName)
                      THEN Append(expense.banks, bankName)
                      ELSE SelectSeq(expense.banks, LAMBDA b : b # bankName)],
     !.clear = TRUE]

\* The edits of one expense that the model draws
ExpenseEdits(expense) ==
  {TypeChange("fees"), AmountChange(Rat(25)), BankToggle(expense, <<"B">>)}

\* { ...expense, ...updates }
EditedExpense(expense, updates) ==
  [expense EXCEPT
     !.type = IF updates.type.some THEN updates.type.v ELSE @,
     !.amount = IF updates.amount.some THEN updates.amount.v ELSE @,
     !.banks = IF updates.banks.some THEN updates.banks.v ELSE @,
     !.bankAllocations = IF updates.clear THEN NoAllocations ELSE @]

\* updateExpenseItem(id, updates): the local expenses afterwards
updateExpenseItem(localExpenses, id, updates) ==
  [k \in DOMAIN localExpenses |->
     IF localExpenses[k].id = id THEN EditedExpense(localExpenses[k], updates)
     ELSE localExpenses[k]]

\* An edit of expense j of the active mission in the expense editor, then
\* saveChanges: the local statement, date and expenses are those of the
\* active mission, with the edit applied.
EditExpenseItem(i, j, updates) ==
  SaveChanges(i, IF missions[i].statement.some THEN missions[i].statement.v ELSE <<>>,
              missions[i].missionDate,
              updateExpenseItem(missions[i].expenses, missions[i].expenses[j].id, updates))

DeleteMissionByIdUnguarded(id) ==
  /\ storage' = deleteMission(storage, id)
  /\ missions' = IF storage' # storage
                 THEN SelectSeq(missions, LAMBDA m : m.id # id) ELSE missions
  /\ UNCHANGED nextId
  /\ UNCHANGED <<backup, now, page>>
  /\ lastOp' = [Op("delete") EXCEPT !.success = storage' # storage]

\* deleteMissionById of the hook; success is what it returns.  With one
\* mission or none in the hook's list it returns false before it reads the
\* store.
DeleteMissionById(id) ==
  IF Len(missions) <= 1
  THEN /\ UNCHANGED <<storage, missions, nextId, backup, now, page>>
       /\ lastOp' = Op("delete")
  ELSE /\ storage' = deleteMission(storage, id)
       /\ missions' = IF storage' # storage
                      THEN SelectSeq(missions, LAMBDA m : m.id # id) ELSE missions
       /\ UNCHANGED nextId
       /\ UNCHANGED <<backup, now, page>>
       /\ lastOp' = [Op("delete") EXCEPT !.success = storage' # storage]

\* handleFileImport(file) -> importMissionsFromExcel, then refreshMissions
\* when it succeeded.
ImportFile(file, src) ==
  \E out \in {ImportOutcome(file, storage, nextId)} :
      /\ out.success =>
           /\ Len(out.stored) <= MaxMissions
           /\ nextId + Len(out.missions) - 1 <= MaxIds
      /\ storage' = out.stored
      /\ missions' = IF out.success THEN out.stored ELSE missions
      /\ nextId' = IF out.success THEN nextId + Len(out.missions) ELSE nextId
      /\ UNCHANGED <<backup, now, page>>
      /\ lastOp' = [Op("import") EXCEPT
                      !.before = storage, !.file = file, !.src = src,
                      !.success = out.success, !.message = out.message,
                      !.imported = out.missions]

\* A file of the user's
ImportMissions == \E file \in Files : ImportFile(file, <<>>)

\* The file that the export has just written
ImportExported ==
  /\ lastOp.kind = "export"
  /\ ImportFile(ExportedWorkbook(ExportRows(lastOp.src)), lastOp.src)

\* exportToExcel -> exportMissionsToExcel(missions)
ExportMissions ==
  /\ lastOp' = [Op("export") EXCEPT !.src = missions]
  /\ UNCHANGED <<storage, missions, nextId>>
  /\ UNCHANGED <<backup, now, page>>

\* handleExport of the period report.  included: which of the missions whose
\* date is no ISO date the engine's Date parser places inside the period.
PeriodReport(fromDate, toDate, included) ==
  LET inRange(k) ==
        IF IsISODate(missions[k].missionDate)
        THEN InPeriod(missions[k].missionDate, fromDate, toDate)
        ELSE k \in included
      filteredMissions == SelectSeq([k \in DOMAIN missions |->
                                       IF inRange(k) THEN <<missions[k]>> ELSE <<>>],
                                    LAMBDA x : x # <<>>)
      filtered == [k \in DOMAIN filteredMissions |-> filteredMissions[k][1]]
  IN  /\ fromDate # <<>> /\ toDate # <<>>
      /\ DateValue(fromDate) <= DateValue(toDate)
      /\ filtered # <<>>
      /\ lastOp' = [Op("report") EXCEPT !.src = filtered,
                                         !.period = <<fromDate, toDate>>]
      /\ UNCHANGED <<storage, missions, nextId>>
      /\ UNCHANGED <<backup, now, page>>

Next ==
  \/ CreateNewMission
  \/ \E i \in DOMAIN missions : \E e \in Employees : HandleEmployeeChange(i, e)
  \/ \E i \in DOMAIN missions : \E d \in DateInputs : \E x \in SavedExpenses :
       SaveChanges(i, IF missions[i].statement.some THEN missions[i].statement.v ELSE <<>>,
                   d, x)
  \/ \E i \in DOMAIN missions : DeleteMissionById(missions[i].id)
  \/ ImportMissions
  \/ ImportExported
  \/ ExportMissions
  \/ \E f \in PeriodInputs : \E t \in PeriodInputs :
       \E inc \in SUBSET {k \in DOMAIN missions :
                            /\ missions[k].missionDate # <<>>
                            /\ ~IsISODate(missions[k].missionDate)} :
         PeriodReport(f, t, inc)

Spec == Init /\ [][Next]_vars

\* ------------------------------------------------ imports and expense edits
\* The imports, the export that feeds the import of an exported file, and the
\* edits of the expense editor followed by saveChanges.
\* The expenses edited are those that carry bankAllocations.
EditedItems(mission) ==
  {j \in DOMAIN mission.expenses : mission.expenses[j].bankAllocations.some}

EditNext ==
  \/ ImportMissions
  \/ ImportExported
  \/ ExportMissions
  \/ \E i \in DOMAIN missions : \E j \in EditedItems(missions[i]) :
       \E u \in ExpenseEdits(missions[i].expenses[j]) : EditExpenseItem(i, j, u)

EditSpec == Init /\ [][EditNext]_vars

\* ------------------------------------------------------- format detection
\* The import applied to one-row missions sheets.  A row has a name, the
\* bank and the total of the simple layout and, in slot 1, 4 or 5, possibly a
\* bank-slot cell (a name, or the number 0) and a subtotal cell (0 or 5)
\* under a label of the detailed layout.
SlotCellOptions(key, values) == {<<>>} \cup {<< <<key, v>> >> : v \in values}

DetectionRows ==
  { Row(<< <<Col("ism almuwazzaf"), StrCell(<<"Ali">>)>>,
           <<Col("albank"), StrCell(<<"B">>)>>,
           <<Col("al'ijmali"), NumCell(Rat(40))>> >> \o bankCell \o typeCell) :
      bankCell \in UNION {SlotCellOptions(BankCol(i), {StrCell(<<"A">>), NumCell(Zero)}) :
                            i \in {1, 4, 5}},
      typeCell \in UNION {SlotCellOptions(TypeCol(label, i), {NumCell(Zero), NumCell(Rat(5))}) :
                            label \in {"rusum", "'ikramiyat"}, i \in {1, 4, 5}} }

DetectionNext ==
  \E row \in DetectionRows : ImportFile(Workbook(<<Sheet("Missions", <<row>>)>>), <<>>)

DetectionSpec == Init /\ [][DetectionNext]_vars

\* ----------------------------------------------------------- date strings
\* tryParseDate applied to the date cell of one-row missions sheets.  The
\* date texts: x/y/2024 for small and large x and y, 15/03/yy for every two
\* digit year, and texts of the other formats, in and out of range.
DateText(a, sep, b, c) == a \o <<sep>> \o b \o <<sep>> \o c

AmbiguousParts == {0, 2, 3, 12, 13, 15, 25, 31}

AmbiguousTexts ==
  {DateText(NatToStr(x), "/", NatToStr(y), NatToStr(2024)) :
     x \in AmbiguousParts, y \in AmbiguousParts}
  \cup {DateText(Pad2(x), "/", Pad2(y), NatToStr(yyyy)) :
          x \in {2, 15, 25, 29, 31}, y \in {2, 3, 29}, yyyy \in {2023, 2024}}

TwoDigitYearTexts ==
  {DateText(NatToStr(15), "/", Pad2(3), Pad2(yy)) : yy \in 0..99}
  \cup {DateText(NatToStr(29), "-", NatToStr(2), Pad2(yy)) : yy \in {0, 49, 50, 51, 99}}

OtherDateTexts ==
  {DateText(NatToStr(yyyy), sep, Pad2(m), Pad2(d)) :
     sep \in {"-", "/", "."}, yyyy \in {1899, 1900, 2100, 2101}, m \in {2, 12}, d \in {29, 31}}
  \cup {DateText(NatToStr(d), sep, NatToStr(m), NatToStr(2023)) :
          sep \in {"-", "."}, d \in {0, 29, 31}, m \in {2, 4, 13}}
  \cup { <<"a", "b", "c">>,
         <<" ">> \o DateText(NatToStr(15), "/", Pad2(3), NatToStr(2024)) \o <<" ">>,
         DateText(NatToStr(15), "/", Pad2(3), NatToStr(2024)) \o <<" ", "1", "0", ":", "0", "0">>,
         DateText(NatToStr(1), "/", NatToStr(2), NatToStr(3)),
         NatToStr(2024) \o <<"-">> \o Pad2(3) }

DateTexts == AmbiguousTexts \cup TwoDigitYearTexts \cup OtherDateTexts

DateNext ==
  \E text \in DateTexts :
    ImportFile(Workbook(<<Sheet("Missions", <<Row(<< <<Col("altarikh"), StrCell(text)>> >>)>>)>>),
               <<>>)

\* An empty collection after earlier missions were created and deleted: one
\* mission id is left to hand out, so every behaviour is one import.
DateInit ==
  /\ storage = <<>>
  /\ missions = <<>>
  /\ nextId = MaxIds
  /\ backup = NoBackup
  /\ now = 0
  /\ page = NoPage
  /\ lastOp = Op("init")

DateSpec == DateInit /\ [][DateNext]_vars

\* ----------------------------------------------------------- type labels
\* The import applied to workbooks of one simple mission row and one expense
\* row, whose type label is a variant of expenseTypeMapping or another word.
TypeLabels ==
  DOMAIN expenseTypeMapping \cup {"weird", "Fees", "rusum idafiya", "constructor"}

TypeRows ==
  { Row(<< <<Col("raqm almamuriya"), NumCell(Rat(1))>>,
           <<Col("naw almasruf"), StrCell(<<label>>)>>,
           <<Col("almablagh"), NumCell(amount)>>,
           <<Col("albank"), StrCell(<<"A">>)>> >>) :
      label \in TypeLabels, amount \in {Zero, Rat(5)} }

TypeNext ==
  \E row \in TypeRows :
    ImportFile(Workbook(<<Sheet("Missions", <<SimpleRowA>>), Sheet("Expenses", <<row>>)>>),
               <<>>)

TypeSpec == Init /\ [][TypeNext]_vars

\* ------------------------------------------------------------- the backup
\* 30 * 60 * 1000 ms, in units of ten minutes
BackupTTL == 3

\* backupMissions: the two keys afterwards
backupMissions(stored, timestamp) ==
  [data |-> [some |-> TRUE, missions |-> stored, timestamp |-> timestamp],
   ttl |-> [some |-> TRUE, v |-> timestamp + BackupTTL]]

\* isBackupValid: Date.now() < ttl, the ttl of a missing key being 0
isBackupValid(b, time) == time < (IF b.ttl.some THEN b.ttl.v ELSE 0)

\* A restore that takes the backup whatever its age
restoreAtAnyAge(stored, b, time) ==
  IF ~b.data.some THEN [stored |-> stored, backup |-> NoBackup, result |-> Null]
  ELSE [stored |-> b.data.missions, backup |-> NoBackup, result |-> Str(b.data.missions)]

\* restoreMissionsFromBackup: the stored collection and the keys afterwards,
\* and the result, null or the restored missions
restoreMissionsFromBackup(stored, b, time) ==
  IF ~isBackupValid(b, time) THEN [stored |-> stored, backup |-> NoBackup, result |-> Null]
  ELSE IF ~b.data.some THEN [stored |-> stored, backup |-> b, result |-> Null]
  ELSE [stored |-> b.data.missions, backup |-> NoBackup, result |-> Str(b.data.missions)]

BackupMissions ==
  /\ backup' = backupMissions(storage, now)
  /\ lastOp' = Op("backup")
  /\ UNCHANGED <<storage, missions, nextId, now, page>>

RestoreMissionsFromBackup ==
  \E out \in {restoreMissionsFromBackup(storage, backup, now)} :
    /\ storage' = out.stored
    /\ backup' = out.backup
    /\ lastOp' = [Op("restore") EXCEPT !.success = out.result.some, !.before = storage]
    /\ UNCHANGED <<missions, nextId, now, page>>

\* Ten minutes pass
Tick ==
  /\ now < MaxTime
  /\ now' = now + 1
  /\ UNCHANGED <<storage, missions, nextId, lastOp, backup, page>>

BackupNext ==
  \/ CreateNewMission
  \/ \E i \in DOMAIN missions : \E e \in Employees : HandleEmployeeChange(i, e)
  \/ \E i \in DOMAIN missions : DeleteMissionById(missions[i].id)
  \/ BackupMissions
  \/ RestoreMissionsFromBackup
  \/ Tick

BackupSpec == Init /\ [][BackupNext]_vars

\* ------------------------------------------------ the store, called by id
\* updateMission and deleteMission of lib/localStorage.ts and the PUT and
\* DELETE routes of the server over ExcelStorage, called with ids the store
\* knows and ids it does not know.  A behaviour is either the client's store
\* or the server's.
MissionIds == 1..(MaxIds + 1)

\* The Partial<InsertMission> bodies of the calls
StoreUpdates ==
  {NoUpdates, [NoUpdates EXCEPT !.statement = Str(<<"s">>)]}
    \cup {[NoUpdates EXCEPT !.employeeCode = [some |-> TRUE, v |-> e.code],
                            !.employeeName = Str(e.name),
                            !.employeeBranch = Str(e.branch)] : e \in Employees}

\* The InsertMission bodies of the creations
StoreInserts ==
  {[employeeCode |-> code, employeeName |-> <<>>, employeeBranch |-> <<>>,
    missionDate |-> TodayISO, bank |-> Null, statement |-> Null,
    expenses |-> <<>>, totalAmount |-> Zero] : code \in {0, 7}}

\* What updateMission returns: undefined, or the updated mission
updateMissionResult(stored, id, updates) ==
  IF FindIndex(stored, id) = 0 THEN [some |-> FALSE, v |-> <<>>]
  ELSE [some |-> TRUE, v |-> MergedMission(stored[FindIndex(stored, id)], updates)]

\* What deleteMission returns: filteredMissions.length !== missions.length
deleteMissionResult(stored, id) == Len(deleteMission(stored, id)) # Len(stored)

\* ExcelStorage.createMission: this.missions, a Map, in insertion order
ExcelStorageCreateMission(stored, insertMission, id) ==
  createMission(stored, insertMission, id)

\* ExcelStorage.updateMission: { ...mission, ...updates, expenses: ... };
\* the body has the keys of insertMissionSchema.partial() only, and a total
\* amount of the model is no empty string.  Map.set on a key the Map has
\* keeps the position of the key.
ExcelStorageUpdateMission(stored, id, updates) ==
  [i \in DOMAIN stored |->
     IF stored[i].id = id THEN MergedMission(stored[i], updates) ELSE stored[i]]

\* this.missions.get(id)
ExcelStorageGet(stored, id) ==
  IF \E i \in DOMAIN stored : stored[i].id = id
  THEN [some |-> TRUE, v |-> CHOOSE m \in Range(stored) : m.id = id]
  ELSE [some |-> FALSE, v |-> <<>>]

\* ExcelStorage.deleteMission: this.missions.delete(id)
ExcelStorageDeleteMission(stored, id) == SelectSeq(stored, LAMBDA m : m.id # id)

ClientKinds == {"client", "createMission", "updateMission", "deleteMission"}
ServerKinds == {"server", "POST", "PUT", "DELETE"}

CreateMissionCall(missionData) ==
  /\ lastOp.kind \in ClientKinds
  /\ Len(storage) < MaxMissions
  /\ nextId <= MaxIds
  /\ storage' = createMission(storage, missionData, nextId)
  /\ nextId' = nextId + 1
  /\ lastOp' = [Op("createMission") EXCEPT !.before = storage, !.id = nextId,
                                            !.success = TRUE]
  /\ UNCHANGED <<missions, backup, now, page>>

UpdateMissionCall(id, updates) ==
  /\ lastOp.kind \in ClientKinds
  /\ storage' = updateMission(storage, id, updates)
  /\ lastOp' = [Op("updateMission") EXCEPT
                  !.before = storage, !.id = id,
                  !.success = updateMissionResult(storage, id, updates).some]
  /\ UNCHANGED <<missions, nextId, backup, now, page>>

DeleteMissionCall(id) ==
  /\ lastOp.kind \in ClientKinds
  /\ storage' = deleteMission(storage, id)
  /\ lastOp' = [Op("deleteMission") EXCEPT
                  !.before = storage, !.id = id,
                  !.success = deleteMissionResult(storage, id)]
  /\ UNCHANGED <<missions, nextId, backup, now, page>>

\* app.post("/api/missions"): 201 with the mission
PostMission(body) ==
  /\ lastOp.kind \in ServerKinds
  /\ Len(storage) < MaxMissions
  /\ nextId <= MaxIds
  /\ storage' = ExcelStorageCreateMission(storage, body, nextId)
  /\ nextId' = nextId + 1
  /\ lastOp' = [Op("POST") EXCEPT !.before = storage, !.id = nextId,
                                   !.success = TRUE, !.status = 201]
  /\ UNCHANGED <<missions, backup, now, page>>

\* app.put("/api/missions/:id"): 404 when updateMission gave no mission
PutMission(id, body) ==
  /\ lastOp.kind \in ServerKinds
  /\ LET mission == ExcelStorageGet(storage, id)
     IN  /\ storage' = IF mission.some
                       THEN ExcelStorageUpdateMission(storage, id, body)
                       ELSE storage
         /\ lastOp' = [Op("PUT") EXCEPT
                         !.before = storage, !.id = id,
                         !.success = mission.some,
                         !.status = IF mission.some THEN 200 ELSE 404]
  /\ UNCHANGED <<missions, nextId, backup, now, page>>

\* app.delete("/api/missions/:id"): 404 when nothing was deleted
DeleteMissionRoute(id) ==
  /\ lastOp.kind \in ServerKinds
  /\ LET deleted == ExcelStorageGet(storage, id).some
     IN  /\ storage' = ExcelStorageDeleteMission(storage, id)
         /\ lastOp' = [Op("DELETE") EXCEPT
                         !.before = storage, !.id = id,
                         !.success = deleted,
                         !.status = IF deleted THEN 204 ELSE 404]
  /\ UNCHANGED <<missions, nextId, backup, now, page>>

StoreInit ==
  /\ storage = <<>>
  /\ missions = <<>>
  /\ nextId = 1
  /\ backup = NoBackup
  /\ now = 0
  /\ page = NoPage
  /\ lastOp \in {Op("client"), Op("server")}

StoreNext ==
  \/ \E m \in StoreInserts : CreateMissionCall(m)
  \/ \E id \in MissionIds : \E u \in StoreUpdates : UpdateMissionCall(id, u)
  \/ \E id \in MissionIds : DeleteMissionCall(id)
  \/ \E m \in StoreInserts : PostMission(m)
  \/ \E id \in MissionIds : \E u \in StoreUpdates : PutMission(id, u)
  \/ \E id \in MissionIds : DeleteMissionRoute(id)

StoreSpec == StoreInit /\ [][StoreNext]_vars

\* ------------------------------------------------------ the editing page
\* The expenses of the active mission as the page edits them: addExpenseItem
\* and removeExpenseItem on localExpenses, the counter effect after each
\* change, saveChanges, and the selection of another mission, over stores
\* that hold imported missions and missions saved by the page.

\* parseInt(expense.id.replace('expense-', '')), none for NaN: the ids of the
\* page are 'expense-<n>', those of an import 'expense_<time>_<random>'
ExpenseIdNumber(id) ==
  IF id.pre = "expense-" THEN [some |-> TRUE, v |-> id.a]
  ELSE [some |-> FALSE, v |-> 0]

\* Math.max(0, ...numbers)
MaxOrZero(numbers) ==
  CHOOSE m \in numbers \cup {0} : \A x \in numbers \cup {0} : x <= m

\* A counter that is the number of expenses plus one
CounterFromLength(localExpenses, expenseCounter) ==
  IF localExpenses = <<>> THEN expenseCounter ELSE Len(localExpenses) + 1

\* The counter effect: the expenseCounter after localExpenses has changed
CounterEffect(localExpenses, expenseCounter) ==
  IF localExpenses = <<>> THEN expenseCounter
  ELSE MaxOrZero({ExpenseIdNumber(localExpenses[i].id).v :
                    i \in {j \in DOMAIN localExpenses :
                             ExpenseIdNumber(localExpenses[j].id).some}}) + 1

\* The effects that follow a change of the active mission
LoadedPage(mission, expenseCounter) ==
  [activeMissionId |-> mission.id,
   localExpenses |-> mission.expenses,
   expenseCounter |-> CounterEffect(mission.expenses, expenseCounter)]

\* selectMission(missionId)
SelectMission(i) ==
  /\ missions[i].id # page.activeMissionId
  /\ page' = LoadedPage(missions[i], page.expenseCounter)
  /\ lastOp' = [Op("select") EXCEPT !.id = missions[i].id]
  /\ UNCHANGED <<storage, missions, nextId, backup, now>>

\* addExpenseItem(type), then the counter effect
AddExpenseItem(type) ==
  /\ Len(page.localExpenses) < MaxExpenses
  /\ page.expenseCounter <= MaxCounter
  /\ LET firstExpenseBanks ==
           IF page.localExpenses # <<>> THEN page.localExpenses[1].banks ELSE <<>>
         newExpense ==
           [id |-> UiExpenseId(page.expenseCounter), type |-> <<type>>,
            amount |-> Zero, banks |-> firstExpenseBanks,
            bankAllocations |-> NoAllocations]
         added == Append(page.localExpenses, newExpense)
     IN  page' = [page EXCEPT
                    !.localExpenses = added,
                    !.expenseCounter = CounterEffect(added, page.expenseCounter + 1)]
  /\ lastOp' = [Op("add") EXCEPT !.id = page.expenseCounter]
  /\ UNCHANGED <<storage, missions, nextId, backup, now>>

\* removeExpenseItem(id) for the id of the j-th expense, then the counter
\* effect
RemoveExpenseItem(j) ==
  /\ j \in DOMAIN page.localExpenses
  /\ LET id == page.localExpenses[j].id
         kept == SelectSeq(page.localExpenses, LAMBDA expense : expense.id # id)
     IN  page' = [page EXCEPT
                    !.localExpenses = kept,
                    !.expenseCounter = CounterEffect(kept, page.expenseCounter)]
  /\ lastOp' = [Op("remove") EXCEPT !.id = j]
  /\ UNCHANGED <<storage, missions, nextId, backup, now>>

\* saveChanges of the page
SavePage ==
  \E i \in DOMAIN missions :
    /\ missions[i].id = page.activeMissionId
    /\ SaveChanges(i, IF missions[i].statement.some THEN missions[i].statement.v ELSE <<>>,
                   missions[i].missionDate, page.localExpenses)

\* The files of a second import: one with linked expenses, one that fails
SecondFiles ==
  { Workbook(<<Sheet("Missions", <<SimpleRowA>>),
               Sheet("Expenses", <<ExpenseRowA, ExpenseRowD>>)>>),
    [Workbook(<<Sheet("Missions", <<SimpleRowA>>)>>) EXCEPT !.readable = FALSE] }

\* Stores the page is opened on: what two imports leave, a failed one
\* leaving what was there
PageStores ==
  {s \in UNION {{ImportOutcome(f2, first, 1 + Len(first)).stored : f2 \in SecondFiles} :
                  first \in {ImportOutcome(f1, <<>>, 1).stored : f1 \in Files}} :
     s # <<>> /\ Len(s) <= MaxMissions}

\* The page after its first effects: the first mission is active
PageInit ==
  /\ storage \in PageStores
  /\ missions = storage
  /\ nextId = 1 + Len(storage)
  /\ backup = NoBackup
  /\ now = 0
  /\ page = LoadedPage(storage[1], NoPage.expenseCounter)
  /\ lastOp = Op("init")

PageNext ==
  \/ \E i \in DOMAIN missions : SelectMission(i)
  \/ AddExpenseItem("transportation")
  \/ \E j \in 1..MaxExpenses : RemoveExpenseItem(j)
  \/ SavePage

PageSpec == PageInit /\ [][PageNext]_vars

\* ------------------------------------------- the projections as functions
\* exportMissionsToExcel and the period report applied to one mission of the
\* data model: one expense of a canonical type, banks that are distinct,
\* trimmed names, bankAllocations (if any) over banks of the expense, zero
\* entries and partial overrides included.
InputBanks == { << <<"A">> >>, << <<"A">>, <<"B">> >>, << <<"B">>, <<"A">>, <<"C">> >> }

InputAllocations ==
  { <<>>,
    <<[bank |-> <<"A">>, amount |-> Rat(50)]>>,
    <<[bank |-> <<"A">>, amount |-> Zero]>>,
    <<[bank |-> <<"A">>, amount |-> Zero], [bank |-> <<"B">>, amount |-> Rat(100)]>>,
    <<[bank |-> <<"A">>, amount |-> Rat(30)], [bank |-> <<"B">>, amount |-> Rat(70)]>> }

AllocationsOver(banks) ==
  {a \in InputAllocations : \A k \in DOMAIN a : Includes(banks, a[k].bank)}

InputExpense(type, amount, banks, allocations) ==
  [id |-> UiExpenseId(1), type |-> <<type>>, amount |-> Rat(amount), banks |-> banks,
   bankAllocations |-> [some |-> allocations # <<>>, v |-> allocations]]

InputExpenses ==
  UNION { { InputExpense(type, amount, banks, allocations) :
              type \in {"transportation", "fees"}, amount \in {90, 100},
              allocations \in AllocationsOver(banks) } : banks \in InputBanks }

InputMissions ==
  { [id |-> 1, employeeCode |-> 7, employeeName |-> <<"Ali">>,
     employeeBranch |-> <<"Cairo">>, missionDate |-> D(2024, 3, 16),
     bank |-> bank, statement |-> Null, expenses |-> <<expense>>,
     totalAmount |-> expense.amount, createdAt |-> 1] :
      bank \in {Null, Str(<<"B">>)}, expense \in InputExpenses }

ProjectionInit ==
  /\ \E mission \in InputMissions : storage = <<mission>> /\ missions = <<mission>>
  /\ nextId = 2
  /\ backup = NoBackup
  /\ now = 0
  /\ page = NoPage
  /\ lastOp = Op("init")

ProjectionNext ==
  \/ ExportMissions
  \/ \E f \in PeriodInputs : \E t \in PeriodInputs : PeriodReport(f, t, {})

ProjectionSpec == ProjectionInit /\ [][ProjectionNext]_vars

\* ------------------------------------------------------------ properties
Exported == lastOp.kind = "export"
Reported == lastOp.kind = "report"
Imported == lastOp.kind = "import"
ReimportedExport == Imported /\ lastOp.src # <<>>

\* The allocation of an expense: what lines 303-326 of the export give each
\* bank of the mission for it, before the amount is filed under its type.
AllocatedSum(mission, expense, banks) ==
  RSumSeq([k \in DOMAIN banks |-> ExportShare(mission, expense, banks[k])])

EqualSplit(expense) == expense.banks # <<>> /\ ~expense.bankAllocations.some

Within(a, b, eps) == RLe(RAbs(RSub(a, b)), eps)

\* The banks of either mission
BanksOfBoth(a, b) == Range(AllBanks(a)) \cup Range(AllBanks(b))

SameTypeTotals(a, b) ==
  \A bank \in BanksOfBoth(a, b) : \A k \in DOMAIN CanonicalTypes :
    Within(ExportTypeTotal(a, a.expenses, bank, CanonicalTypes[k]),
           ExportTypeTotal(b, b.expenses, bank, CanonicalTypes[k]), Cent)

SameGrandTotal(a, b) ==
  Within(GrandTotal(SortedBankMissions(a)), GrandTotal(SortedBankMissions(b)), Cent)

SameMission(a, b) ==
  /\ a.employeeName = b.employeeName
  /\ a.employeeCode = b.employeeCode
  /\ a.employeeBranch = b.employeeBranch
  /\ a.missionDate = b.missionDate
  /\ SameTypeTotals(a, b)
  /\ SameGrandTotal(a, b)

\* A mission of the data model (a calendar date) that touches at most 4 banks
\* and has no explicit bankAllocations
RoundTripInput(mission) ==
  /\ IsISODate(mission.missionDate)
  /\ Len(AllBanks(mission)) <= 4
  /\ \A j \in DOMAIN mission.expenses : ~mission.expenses[j].bankAllocations.some

\* C1: when the rows exported from missions that each touch at most 4 banks
\* and carry no explicit bankAllocations are imported, the import yields for
\* each mission a mission with the same employee name, code and branch, the
\* same date, the same per-type-per-bank totals (within 0.01) and the same
\* grand total.
C1_RoundTrip ==
  (ReimportedExport /\ \A i \in DOMAIN lastOp.src : RoundTripInput(lastOp.src[i]))
    => /\ lastOp.success
       /\ Len(lastOp.imported) = Len(lastOp.src)
       /\ \A i \in DOMAIN lastOp.src : SameMission(lastOp.src[i], lastOp.imported[i])

\* C2: for every expense of an exported mission with 1 to 10 banks and no
\* explicit bankAllocations, the amounts the export gives the banks of the
\* mission for that expense sum to exactly the expense's amount.
C2_AllocationConservation ==
  Exported =>
    \A i \in DOMAIN lastOp.src : \A j \in DOMAIN lastOp.src[i].expenses :
      \A mission \in {lastOp.src[i]} : \A expense \in {lastOp.src[i].expenses[j]} :
        (EqualSplit(expense) /\ Len(expense.banks) \in 1..10)
          => AllocatedSum(mission, expense, AllBanks(mission)) = expense.amount

\* The amount the claim gives bank k of the expense's banks
ClaimedShare(expense, allocation) ==
  IF allocation.some THEN allocation.v ELSE RDivInt(expense.amount, Len(expense.banks))

C4_SameAttribution ==
  (Exported \/ Reported) =>
    \A i \in DOMAIN lastOp.src : \A mission \in {lastOp.src[i]} :
      \A bank \in Range(AllBanks(mission)) : \A k \in DOMAIN CanonicalTypes :
        PeriodTypeTotal(mission, mission.expenses, bank, CanonicalTypes[k])
          = ExportTypeTotal(mission, mission.expenses, bank, CanonicalTypes[k])

\* The number of the mission's banks that sort before bank
BankRank(banks, bank) == Cardinality({c \in Range(banks) : StrLess(c, bank)})

\* The cells of slot i of the row are those of the bank's slot of the mission
ShowsBankAt(row, i, mission, bank) ==
  /\ row[BankCol(i)] = StrCell(sanitizeForExcel(bank))
  /\ row[SlotTotalCol(i)] = NumCell(BankMission(mission, bank).total)
  /\ \A k \in DOMAIN CanonicalTypes :
       row[TypeCol(ExportTypeLabels[k], i)] = NumCell(BankMission(mission, bank).sub[k])

LossyProjection(mission, row, banks) ==
  /\ row[GrandTotalCol] =
       NumCell(RSumSeq([k \in DOMAIN banks |-> BankMission(mission, banks[k]).total]))
  /\ \A bank \in Range(banks) :
       IF BankRank(banks, bank) < 4
       THEN ShowsBankAt(row, BankRank(banks, bank) + 1, mission, bank)
       ELSE \A i \in 1..4 : row[BankCol(i)] # StrCell(sanitizeForExcel(bank))

\* C5: the exported row of a mission with more than 4 banks has as grand
\* total the sum of the slot totals of ALL its banks; its four column groups
\* hold the first four banks in sorted order, and a later bank is in no bank
\* column.
C5_LossyProjection ==
  Exported =>
    \A i \in DOMAIN lastOp.src : \A mission \in {lastOp.src[i]} :
      Len(AllBanks(mission)) > 4
        => LossyProjection(mission, ExportRow(mission), AllBanks(mission))

\* An exported mission with five banks, each with a nonzero slot total
C5_Witness ==
  /\ Exported
  /\ \E i \in DOMAIN lastOp.src : \A mission \in {lastOp.src[i]} :
       /\ Len(AllBanks(mission)) = 5
       /\ \A bank \in Range(AllBanks(mission)) :
            BankMission(mission, bank).total # Zero

\* C6: every stored mission has totalAmount equal to the sum of the amounts
\* of its expenses.
C6_TotalIsSumOfExpenses ==
  \A i \in DOMAIN storage : storage[i].totalAmount = SumAmounts(storage[i].expenses)

\* C7: after a successful import the stored collection is the collection
\* stored before, unchanged and in order, followed by the imported missions.
C7_ImportAppends ==
  (Imported /\ lastOp.success) => storage = lastOp.before \o lastOp.imported

\* A successful import into a collection that was not empty
C7_Witness ==
  Imported /\ lastOp.success /\ lastOp.before # <<>> /\ lastOp.imported # <<>>

\* The file fails validation, has no missions sheet, or its missions sheet
\* has no data row.
StructuralFailure(file) ==
  \/ ~validateExcelFile(file).isValid
  \/ \A k \in DOMAIN file.sheets : ~IsMissionSheetName(file.sheets[k].name)
  \/ \E k \in DOMAIN file.sheets :
       /\ IsMissionSheetName(file.sheets[k].name)
       /\ \A j \in 1..(k - 1) : ~IsMissionSheetName(file.sheets[j].name)
       /\ file.sheets[k].data = <<>>

\* C8: an import of a file that fails validation, has no missions sheet or
\* has no mission row returns success = false with a reason, imports no
\* mission and leaves the stored collection as it was.
C8_FailureIsAllOrNothing ==
  (Imported /\ StructuralFailure(lastOp.file))
    => /\ ~lastOp.success
       /\ lastOp.message # ""
       /\ lastOp.imported = <<>>
       /\ storage = lastOp.before

\* A structurally failing import while missions were stored
C8_Witness ==
  Imported /\ StructuralFailure(lastOp.file) /\ lastOp.before # <<>>

\* The string columns of an exported row that the claim names
GuardedCols ==
  {Col("ism almuwazzaf"), Col("far"), Col("altarikh"), Col("bayan")}
    \cup {BankCol(i) : i \in 1..4}

StartsFormula(str) == str # <<>> /\ str[1] \in FormulaChars

\* C9: in every exported row, the employee name, the branch, the date, the
\* statement and the bank names do not begin with =, +, - or @.
C9_NoFormulaPrefix ==
  Exported =>
    \A i \in DOMAIN lastOp.src : \A row \in {ExportRow(lastOp.src[i])} :
      \A key \in GuardedCols : row[key].t = "str" => ~StartsFormula(row[key].s)

\* The bank the claim routes an expense without banks to
ClaimedFallback(mission) ==
  IF mission.bank.some /\ Trim(mission.bank.v) # <<>>
  THEN Trim(mission.bank.v) ELSE UNSPECIFIED

RoutedToFallback(mission, expense, banks) ==
  /\ Includes(banks, ClaimedFallback(mission))
  /\ \A bank \in Range(banks) :
       /\ ExportShare(mission, expense, bank)
            = (IF bank = ClaimedFallback(mission) THEN expense.amount ELSE Zero)
       /\ PeriodShare(mission, expense, bank)
            = (IF bank = ClaimedFallback(mission) THEN expense.amount ELSE Zero)

\* C10: an expense with no banks has its whole amount given to the mission's
\* bank field when that is non-null and non-blank, otherwise to the
\* 'unspecified' bank, and nothing of it to any other bank, in the export
\* and in the period report.
C10_FallbackRouting ==
  (Exported \/ Reported) =>
    \A i \in DOMAIN lastOp.src : \A mission \in {lastOp.src[i]} :
      \A j \in DOMAIN mission.expenses :
        mission.expenses[j].banks = <<>>
          => RoutedToFallback(mission, mission.expenses[j], AllBanks(mission))

HasUnbankedExpense(mission) ==
  \E j \in DOMAIN mission.expenses :
    mission.expenses[j].banks = <<>> /\ mission.expenses[j].amount # Zero

\* An export of two missions with an expense without banks, one mission with
\* a bank field and one without
C10_Witness ==
  /\ Exported
  /\ \E i \in DOMAIN lastOp.src :
       HasUnbankedExpense(lastOp.src[i]) /\ lastOp.src[i].bank.some
  /\ \E i \in DOMAIN lastOp.src :
       HasUnbankedExpense(lastOp.src[i]) /\ ~lastOp.src[i].bank.some

Reverse(seq) == [i \in DOMAIN seq |-> seq[Len(seq) + 1 - i]]

\* The mission with its banks met in the opposite order: the expenses
\* reversed and the banks of each expense reversed
Reordered(mission) ==
  [mission EXCEPT !.expenses =
     Reverse([j \in DOMAIN mission.expenses |->
                [mission.expenses[j] EXCEPT !.banks = Reverse(mission.expenses[j].banks)]])]

\* Slot group i of the row is the bank-absent placeholder with zeros
EmptySlotAt(row, i) ==
  /\ row[BankCol(i)] = StrCell(NO_BANK)
  /\ row[SlotTotalCol(i)] = NumCell(Zero)
  /\ \A k \in DOMAIN ExportTypeLabels : row[TypeCol(ExportTypeLabels[k], i)] = NumCell(Zero)

SlotKeys(i) ==
  {BankCol(i), SlotTotalCol(i)} \cup {TypeCol(ExportTypeLabels[k], i) : k \in 1..5}

RowLayout(mission, row, banks) ==
  /\ {key \in DOMAIN row : key[2] # 0} = UNION {SlotKeys(i) : i \in 1..4}
  /\ \A bank \in Range(banks) :
       BankRank(banks, bank) < 4
         => ShowsBankAt(row, BankRank(banks, bank) + 1, mission, bank)
  /\ \A i \in 1..4 : i > Len(banks) => EmptySlotAt(row, i)
  /\ ExportRow(Reordered(mission)) = row

\* C11: every exported row has exactly 4 bank-slot groups; group i holds the
\* i-th of the mission's slots in the order of their bank names when the
\* mission has that many slots and the bank-absent placeholder with zero
\* subtotals and total otherwise; the row is the same when the same banks
\* are met in another order.
C11_RowLayout ==
  Exported =>
    \A i \in DOMAIN lastOp.src : \A mission \in {lastOp.src[i]} :
      RowLayout(mission, ExportRow(mission), AllBanks(mission))

\* An export with a mission whose banks are met out of name order and a
\* mission with fewer than 4 banks
C11_Witness ==
  /\ Exported
  /\ \E i \in DOMAIN lastOp.src : \E banks \in {AllBanks(lastOp.src[i])} :
       \E a, b \in DOMAIN banks : a < b /\ StrLess(banks[b], banks[a])
  /\ \E i \in DOMAIN lastOp.src : Len(AllBanks(lastOp.src[i])) \in 2..3

\* The rows of the missions sheet of an imported file
MissionRows(file) ==
  file.sheets[CHOOSE k \in DOMAIN file.sheets :
                /\ IsMissionSheetName(file.sheets[k].name)
                /\ \A j \in 1..(k - 1) : ~IsMissionSheetName(file.sheets[j].name)].data

\* The bank name of slot i of a row, '' when the slot names no bank
SlotBank(row, i) ==
  IF BankCol(i) \in DOMAIN row /\ Truthy(row[BankCol(i)])
  THEN Trim(CellToString(row[BankCol(i)])) ELSE <<>>

\* What the subtotal column (slot i, label k) of a row contributes to a type
\* on behalf of a bank: its number when the label is one of the type, the
\* slot's bank is that bank, a real bank name, and the number is above 0.
Contribution(row, type, bank, i, k) ==
  IF /\ detailedExportTypeMapping[k][2] = type
     /\ SlotBank(row, i) = bank /\ bank # <<>> /\ bank # NO_BANK
     /\ RLt(Zero, parseNumber(Cell(row, TypeCol(detailedExportTypeMapping[k][1], i))))
  THEN parseNumber(Cell(row, TypeCol(detailedExportTypeMapping[k][1], i)))
  ELSE Zero

\* The sum of the contributions of the subtotal columns of slot i
SlotContribution(row, type, bank, i) ==
  RSumSeq([k \in DOMAIN detailedExportTypeMapping |-> Contribution(row, type, bank, i, k)])

ContributedBy(row, type, bank) ==
  RAdd(RAdd(SlotContribution(row, type, bank, 1), SlotContribution(row, type, bank, 2)),
       RAdd(SlotContribution(row, type, bank, 3), SlotContribution(row, type, bank, 4)))

ContributingBanks(row, type) ==
  {bank \in {SlotBank(row, i) : i \in 1..4} : ContributedBy(row, type, bank) # Zero}

\* The sum of a function over a finite set of banks
RECURSIVE SumOverBanks(_, _, _)
SumOverBanks(row, type, banks) ==
  IF banks = {} THEN Zero
  ELSE LET bank == CHOOSE b \in banks : TRUE
       IN  RAdd(ContributedBy(row, type, bank), SumOverBanks(row, type, banks \ {bank}))

\* The expense is the one item the claim describes for the type
IsItemOf(expense, row, type) ==
  /\ expense.amount = SumOverBanks(row, type, ContributingBanks(row, type))
  /\ Range(expense.banks) = ContributingBanks(row, type)
  /\ Len(expense.banks) = Cardinality(ContributingBanks(row, type))
  /\ expense.bankAllocations.some
  /\ {expense.bankAllocations.v[x].bank : x \in DOMAIN expense.bankAllocations.v}
       = ContributingBanks(row, type)
  /\ \A bank \in ContributingBanks(row, type) :
       AllocationOf(expense, bank) = [some |-> TRUE, v |-> ContributedBy(row, type, bank)]

OneItemPerType(row, mission) ==
  /\ \A j \in DOMAIN mission.expenses :
       \E k \in DOMAIN CanonicalTypes : mission.expenses[j].type = <<CanonicalTypes[k]>>
  /\ \A k \in DOMAIN CanonicalTypes :
       \A items \in {{j \in DOMAIN mission.expenses :
                        mission.expenses[j].type = <<CanonicalTypes[k]>>}} :
         IF ContributingBanks(row, CanonicalTypes[k]) = {} THEN items = {}
         ELSE /\ Cardinality(items) = 1
              /\ \A j \in items : IsItemOf(mission.expenses[j], row, CanonicalTypes[k])

ReconstructedTotal(row) ==
  RSumSeq([k \in DOMAIN CanonicalTypes |->
             SumOverBanks(row, CanonicalTypes[k], ContributingBanks(row, CanonicalTypes[k]))])

\* The stated grand total of the row differs from the sum by more than 0.01
TotalMismatch(row) ==
  RLt(Cent, RAbs(RSub(ReconstructedTotal(row), parseNumber(Cell(row, GrandTotalCol)))))

\* The file is read and has a missions sheet with rows
Importable(file) == file.readable /\ ~StructuralFailure(file)

\* C13: when a detailed row of an imported file states a grand total that
\* differs from the sum of its reconstructed expense amounts by more than
\* 0.01, the import succeeds, the row's mission is imported, and its
\* totalAmount is the reconstructed sum.
C13_ReconstructedTotalWins ==
  (Imported /\ Importable(lastOp.file)) =>
    \A r \in DOMAIN MissionRows(lastOp.file) : \A row \in {MissionRows(lastOp.file)[r]} :
      (isDetailedExportRow(row) /\ TotalMismatch(row))
        => /\ lastOp.success
           /\ r \in DOMAIN lastOp.imported
           /\ lastOp.imported[r].totalAmount = ReconstructedTotal(row)
           /\ lastOp.imported[r].totalAmount = SumAmounts(lastOp.imported[r].expenses)
           /\ \E i \in DOMAIN storage : storage[i] = lastOp.imported[r]

\* An import of a detailed row with expenses whose stated total is not their sum
C13_Witness ==
  /\ Imported /\ Importable(lastOp.file)
  /\ \E r \in DOMAIN MissionRows(lastOp.file) : \E row \in {MissionRows(lastOp.file)[r]} :
       /\ isDetailedExportRow(row) /\ TotalMismatch(row)
       /\ ReconstructedTotal(row) # Zero

AllocationKeys(expense) ==
  {expense.bankAllocations.v[x].bank : x \in DOMAIN expense.bankAllocations.v}

\* C14: every stored expense that has bankAllocations has only banks of its
\* banks list as keys of bankAllocations.
C14_AllocationKeysInBanks ==
  \A i \in DOMAIN storage : \A j \in DOMAIN storage[i].expenses :
    \A expense \in {storage[i].expenses[j]} :
      expense.bankAllocations.some => AllocationKeys(expense) \subseteq Range(expense.banks)

\* After an edit in the expense editor: an imported expense whose type was
\* changed still has its allocations, and one whose banks or amount were
\* changed has none
C14_Witness ==
  /\ lastOp.kind = "update"
  /\ \E i \in DOMAIN storage : \E j \in DOMAIN storage[i].expenses :
       /\ storage[i].expenses[j].id.pre = "expense_"
       /\ storage[i].expenses[j].bankAllocations.some
       /\ AllocationKeys(storage[i].expenses[j]) # {}
  /\ \E i \in DOMAIN storage : \E j \in DOMAIN storage[i].expenses :
       /\ storage[i].expenses[j].id.pre = "expense_"
       /\ ~storage[i].expenses[j].bankAllocations.some
       /\ storage[i].expenses[j].banks # <<>>

\* The rows of the expenses sheet of a file, <<>> when it has none
ExpenseRows(file) ==
  IF \E k \in DOMAIN file.sheets : IsExpenseSheetName(file.sheets[k].name)
  THEN file.sheets[CHOOSE k \in DOMAIN file.sheets :
                     /\ IsExpenseSheetName(file.sheets[k].name)
                     /\ \A j \in 1..(k - 1) : ~IsExpenseSheetName(file.sheets[j].name)].data
  ELSE <<>>

\* The identifier a row carries: the text of the first identifier column the
\* row has with a value, <<>> when it has none
RECURSIVE FirstIdText(_, _)
FirstIdText(row, keys) ==
  IF keys = <<>> THEN <<>>
  ELSE IF keys[1] \in DOMAIN row /\ CellToString(row[keys[1]]) # <<>>
  THEN CellToString(row[keys[1]])
  ELSE FirstIdText(row, Tail(keys))

SourceId(row) == FirstIdText(row, MissionIdCols)

\* The expense rows that carry the identifier of the mission row, in order
RowsOfMission(expenseData, row) ==
  SelectSeq([q \in DOMAIN expenseData |-> q],
            LAMBDA q : SourceId(row) # <<>> /\ SourceId(expenseData[q]) = SourceId(row))

\* The mission's expenses are those of the given expense rows, in order
AttachedExactly(mission, expenseData, rows) ==
  /\ Len(mission.expenses) = Len(rows)
  /\ \A n \in DOMAIN rows :
       /\ mission.expenses[n].id.b = 0 - rows[n]
       /\ [mission.expenses[n] EXCEPT !.id = 0]
            = [ExpenseOfRow(expenseData[rows[n]], 0, rows[n]) EXCEPT !.id = 0]

\* C15: an import of a file with an expenses sheet succeeds, and the mission
\* of every simple mission row has as expenses exactly the expense rows that
\* carry the row's identifier; an expense row with an identifier of no
\* mission row is in no mission.
C15_CrossSheetLinking ==
  (Imported /\ Importable(lastOp.file) /\ ExpenseRows(lastOp.file) # <<>>) =>
    /\ lastOp.success
    /\ \A r \in DOMAIN MissionRows(lastOp.file) : \A row \in {MissionRows(lastOp.file)[r]} :
         ~isDetailedExportRow(row)
           => /\ r \in DOMAIN lastOp.imported
              /\ AttachedExactly(lastOp.imported[r], ExpenseRows(lastOp.file),
                                 RowsOfMission(ExpenseRows(lastOp.file), row))

\* No column of the list has a value in the row
Lacks(row, keys) == \A k \in DOMAIN keys : ~Truthy(Cell(row, keys[k]))

\* The mission has the defaults for what the row lacks, and the current date
\* when the row's date cannot be parsed
HasDefaults(row, mission) ==
  /\ Lacks(row, NameCols) => mission.employeeName = <<>>
  /\ Lacks(row, CodeCols) => mission.employeeCode = 0
  /\ Lacks(row, BranchCols) => mission.employeeBranch = <<>>
  /\ ~tryParseDate(OrCellsLast(row, DateCols)).some => mission.missionDate = TodayISO

\* C16: an import of a file with mission rows imports exactly one mission per
\* row, in order; a row without name, code or branch gets '' and 0, and a row
\* whose date cannot be parsed gets the current date.
C16_NoRowDropped ==
  (Imported /\ Importable(lastOp.file)) =>
    /\ lastOp.success
    /\ Len(lastOp.imported) = Len(MissionRows(lastOp.file))
    /\ \A r \in DOMAIN MissionRows(lastOp.file) :
         /\ r \in DOMAIN lastOp.imported
         /\ HasDefaults(MissionRows(lastOp.file)[r], lastOp.imported[r])
         /\ \E i \in DOMAIN storage : storage[i] = lastOp.imported[r]

\* An import of a row without name, code and branch whose date text is no
\* calendar date
C16_Witness ==
  /\ Imported /\ Importable(lastOp.file)
  /\ \E r \in DOMAIN MissionRows(lastOp.file) : \E row \in {MissionRows(lastOp.file)[r]} :
       /\ Lacks(row, NameCols) /\ Lacks(row, CodeCols) /\ Lacks(row, BranchCols)
       /\ Truthy(OrCellsLast(row, DateCols))
       /\ ~tryParseDate(OrCellsLast(row, DateCols)).some

\* The row has one of the 4 numbered bank-slot columns or a numbered
\* expense-type column
HasDetailedColumn(row) ==
  \/ \E i \in 1..4 : BankCol(i) \in DOMAIN row
  \/ \E k \in DOMAIN detailedExportTypeMapping : \E i \in 1..4 :
       TypeCol(detailedExportTypeMapping[k][1], i) \in DOMAIN row

\* C17: the mission imported from a row is the one of the detailed format
\* exactly when the row has one of the 4 numbered bank-slot columns or a
\* numbered expense-type column, and otherwise the one of the simple format,
\* which has no expense when the file has no expenses sheet.
C17_FormatDetection ==
  (Imported /\ lastOp.success) =>
    \A r \in DOMAIN MissionRows(lastOp.file) : \A row \in {MissionRows(lastOp.file)[r]} :
      \A mission \in {lastOp.imported[r]} :
        IF HasDetailedColumn(row)
        THEN mission = DetailedMission(row, mission.id)
        ELSE /\ ExpenseRows(lastOp.file) = <<>> => mission = SimpleMission(row, mission.id)
             /\ ExpenseRows(lastOp.file) = <<>> => mission.expenses = <<>>

\* The date texts of a row that has the date of the simple layout only
DateTextsOf(row) ==
  IF /\ Col("altarikh") \in DOMAIN row
     /\ Col("tarikh almamuriya") \notin DOMAIN row
     /\ row[Col("altarikh")].t = "str"
  THEN {row[Col("altarikh")].s} ELSE {}

\* The three numbers of a text of digits around two separators sep, or <<>>
NumbersOf(text, sep) ==
  With(Split(text, sep),
       LAMBDA p : IF Len(p) = 3 /\ \A i \in 1..3 : AllDigits(p[i]) /\ Len(p[i]) <= 4
                  THEN <<[len |-> Len(p[1]), v |-> DigitsToNat(p[1])],
                         [len |-> Len(p[2]), v |-> DigitsToNat(p[2])],
                         [len |-> Len(p[3]), v |-> DigitsToNat(p[3])]>>
                  ELSE <<>>)

IsCalendarDate(y, m, d) ==
  /\ y \in 1900..2100
  /\ m \in 1..12
  /\ d >= 1
  /\ d <= (IF m = 2 THEN (IF (y % 4 = 0 /\ y % 100 # 0) \/ y % 400 = 0 THEN 29 ELSE 28)
           ELSE IF m \in {4, 6, 9, 11} THEN 30 ELSE 31)

TwoDigits(k) == <<DigitChar(k \div 10), DigitChar(k % 10)>>

ISOText(y, m, d) == NatToStr(y) \o <<"-">> \o TwoDigits(m) \o <<"-">> \o TwoDigits(d)

\* The date of a mission whose row gives the year, month and day y, m, d
DateOrToday(y, m, d) == IF IsCalendarDate(y, m, d) THEN ISOText(y, m, d) ELSE TodayISO

\* The texts x/y/yyyy of a row, as <<x, y, yyyy>>
AmbiguousOf(row) ==
  {n \in {NumbersOf(text, "/") : text \in DateTextsOf(row)} :
     n # <<>> /\ n[1].len <= 2 /\ n[2].len <= 2 /\ n[3].len = 4}

\* C18: a date x/y/yyyy where exactly one of x and y is greater than 12 is
\* read with that one as the day and the other as the month, and where both
\* are at most 12 with x as the day and y as the month.
C18_DateDisambiguation ==
  (Imported /\ lastOp.success) =>
    \A r \in DOMAIN MissionRows(lastOp.file) :
      \A n \in AmbiguousOf(MissionRows(lastOp.file)[r]) :
        /\ (n[1].v > 12 /\ n[2].v <= 12) =>
             lastOp.imported[r].missionDate = DateOrToday(n[3].v, n[2].v, n[1].v)
        /\ (n[2].v > 12 /\ n[1].v <= 12) =>
             lastOp.imported[r].missionDate = DateOrToday(n[3].v, n[1].v, n[2].v)
        /\ (n[1].v <= 12 /\ n[2].v <= 12) =>
             lastOp.imported[r].missionDate = DateOrToday(n[3].v, n[2].v, n[1].v)

\* A text such as 3/25/2024 has been imported as 2024-03-25
C18_Witness ==
  /\ Imported /\ lastOp.success
  /\ \E r \in DOMAIN MissionRows(lastOp.file) :
       \E n \in AmbiguousOf(MissionRows(lastOp.file)[r]) :
         /\ n[1].v <= 12 /\ n[2].v > 12
         /\ lastOp.imported[r].missionDate = ISOText(n[3].v, n[1].v, n[2].v)
         /\ lastOp.imported[r].missionDate # TodayISO

\* The texts d/m/yy and d-m-yy of a row, as <<d, m, yy>>
TwoDigitYearOf(row) ==
  {n \in {NumbersOf(text, sep) : text \in DateTextsOf(row), sep \in {"/", "-"}} :
     n # <<>> /\ n[1].len <= 2 /\ n[2].len <= 2 /\ n[3].len = 2}

PromotedYear(yy) == IF yy < 50 THEN 2000 + yy ELSE 1900 + yy

\* C19: a day-first date with a two-digit year yy is read with the year
\* 2000 + yy when yy < 50 and 1900 + yy when yy >= 50.
C19_TwoDigitYear ==
  (Imported /\ lastOp.success) =>
    \A r \in DOMAIN MissionRows(lastOp.file) :
      \A n \in TwoDigitYearOf(MissionRows(lastOp.file)[r]) :
        lastOp.imported[r].missionDate = DateOrToday(PromotedYear(n[3].v), n[2].v, n[1].v)

\* A text without the spaces around it
Stripped(text) ==
  IF \A i \in DOMAIN text : text[i] = " " THEN <<>>
  ELSE SubSeq(text,
              CHOOSE i \in DOMAIN text : text[i] # " " /\ \A j \in 1..(i - 1) : text[j] = " ",
              CHOOSE i \in DOMAIN text :
                text[i] # " " /\ \A j \in (i + 1)..Len(text) : text[j] = " ")

\* The readings of a date text: its three numbers as year-month-day, as
\* day-month-year and as month-day-year, a two-digit year in either century.
Readings(text) ==
  UNION { IF n = <<>> THEN {}
          ELSE {<<n[1].v, n[2].v, n[3].v>>, <<n[3].v, n[2].v, n[1].v>>,
                <<n[3].v, n[1].v, n[2].v>>, <<1900 + n[3].v, n[2].v, n[1].v>>,
                <<2000 + n[3].v, n[2].v, n[1].v>>} :
          n \in {NumbersOf(Stripped(text), sep) : sep \in {"-", "/", "."}} }

\* A date text none of whose readings is a calendar date between 1900 and 2100
Unreadable(text) == \A p \in Readings(text) : ~IsCalendarDate(p[1], p[2], p[3])

\* C20: the import of a date text does not fail, and the text gives a date
\* only when a reading of it has a year from 1900 to 2100, a month from 1 to
\* 12 and a day of that month; the date is that year, month and day, the
\* month and the day on two digits.
C20_ValidatedDate ==
  Imported =>
    /\ (/\ Importable(lastOp.file)
        /\ \E r \in DOMAIN MissionRows(lastOp.file) :
             DateTextsOf(MissionRows(lastOp.file)[r]) # {}) => lastOp.success
    /\ lastOp.success =>
         \A r \in DOMAIN MissionRows(lastOp.file) :
           \A text \in DateTextsOf(MissionRows(lastOp.file)[r]) :
             \/ lastOp.imported[r].missionDate = TodayISO
             \/ \E p \in Readings(text) :
                  /\ IsCalendarDate(p[1], p[2], p[3])
                  /\ lastOp.imported[r].missionDate = ISOText(p[1], p[2], p[3])

\* A text every reading of which is out of range, such as 31/02/2024, has
\* been imported and gave no date
C20_Witness ==
  /\ Imported /\ lastOp.success
  /\ \E r \in DOMAIN MissionRows(lastOp.file) :
       \E text \in DateTextsOf(MissionRows(lastOp.file)[r]) :
         /\ NumbersOf(text, "/") # <<>>
         /\ NumbersOf(text, "/")[1].v = 31 /\ NumbersOf(text, "/")[2].v = 2
         /\ Unreadable(text)
         /\ lastOp.imported[r].missionDate = TodayISO

\* The year, month and day of an ISO date text, as numbers
YearMonthDay(text) ==
  <<DigitsToNat(SubSeq(text, 1, 4)), DigitsToNat(SubSeq(text, 6, 7)),
    DigitsToNat(SubSeq(text, 9, 10))>>

\* The date a is not after the date b
NotAfter(a, b) ==
  \/ a[1] < b[1]
  \/ a[1] = b[1] /\ a[2] < b[2]
  \/ a[1] = b[1] /\ a[2] = b[2] /\ a[3] <= b[3]

\* The day after the date of the text a is the date of the text b
NextDay(a, b) == DateValue(b) = DateValue(a) + 1

Dated(mission) == Len(mission.missionDate) = 10 /\ IsISODate(mission.missionDate)

WithinPeriod(mission, period) ==
  /\ Dated(mission)
  /\ NotAfter(YearMonthDay(period[1]), YearMonthDay(mission.missionDate))
  /\ NotAfter(YearMonthDay(mission.missionDate), YearMonthDay(period[2]))

\* The missions of the last report, by id
ReportedIds == {lastOp.src[j].id : j \in DOMAIN lastOp.src}

\* C21: a period report takes its missions from the collection, in their
\* order; a mission with a calendar date is among them exactly when that
\* date is on or after from and on or before to, and a mission without date
\* is not among them.
C21_InclusivePeriod ==
  Reported =>
    /\ lastOp.src = SelectSeq(missions, LAMBDA m : m.id \in ReportedIds)
    /\ \A k \in DOMAIN missions :
         (Dated(missions[k]) \/ missions[k].missionDate = <<>>) =>
           (missions[k].id \in ReportedIds <=> WithinPeriod(missions[k], lastOp.period))

\* A report whose period is one day, over a mission of that day, which it
\* includes, and a mission of the day before or after, which it leaves out
C21_Witness ==
  /\ Reported
  /\ lastOp.period[1] = lastOp.period[2]
  /\ Len(missions) = 2 /\ Len(lastOp.src) = 1
  /\ lastOp.src[1].missionDate = lastOp.period[1]
  /\ \E k \in DOMAIN missions :
       /\ Dated(missions[k])
       /\ \/ NextDay(missions[k].missionDate, lastOp.period[1])
          \/ NextDay(lastOp.period[2], missions[k].missionDate)

\* The amount of an expense allocated to a bank: its entry of
\* bankAllocations or else its equal share when the bank is one of the
\* expense's banks, the whole amount when the expense has no bank and the
\* bank is the mission's fallback
AllocatedTo(mission, expense, bank) ==
  IF expense.banks # <<>>
  THEN (IF Includes(expense.banks, bank)
        THEN ClaimedShare(expense, AllocationOf(expense, bank)) ELSE Zero)
  ELSE (IF bank = ClaimedFallback(mission) THEN expense.amount ELSE Zero)

\* The banks of a mission: those of its expenses, the fallback for an
\* expense without bank and for a mission without expense
BanksOf(mission) ==
  IF mission.expenses = <<>> THEN {ClaimedFallback(mission)}
  ELSE UNION {IF mission.expenses[j].banks = <<>> THEN {ClaimedFallback(mission)}
              ELSE Range(mission.expenses[j].banks) : j \in DOMAIN mission.expenses}

\* The (employeeCode, bankName) pairs of a list of missions
PairsOf(list) ==
  UNION {{<<list[i].employeeCode, bank>> : bank \in BanksOf(list[i])} : i \in DOMAIN list}

\* The sum over the expenses of one mission that have the type
RECURSIVE AllocatedOfType(_, _, _, _)
AllocatedOfType(mission, n, bank, type) ==
  IF n = 0 THEN Zero
  ELSE RAdd(AllocatedOfType(mission, n - 1, bank, type),
            IF normalizeExpenseType(mission.expenses[n].type) = <<type>>
            THEN AllocatedTo(mission, mission.expenses[n], bank) ELSE Zero)

\* The sum over the missions of one employee
RECURSIVE AllocatedOfEmployee(_, _, _, _, _)
AllocatedOfEmployee(list, n, code, bank, type) ==
  IF n = 0 THEN Zero
  ELSE RAdd(AllocatedOfEmployee(list, n - 1, code, bank, type),
            IF list[n].employeeCode = code
            THEN AllocatedOfType(list[n], Len(list[n].expenses), bank, type) ELSE Zero)

RowOfPair(rows, pair) ==
  {j \in DOMAIN rows : rows[j].employeeCode = pair[1] /\ rows[j].bankName = pair[2]}

GroupedByPair(list, rows) ==
  /\ \A j \in DOMAIN rows : <<rows[j].employeeCode, rows[j].bankName>> \in PairsOf(list)
  /\ \A pair \in PairsOf(list) :
       /\ Cardinality(RowOfPair(rows, pair)) = 1
       /\ \A j \in RowOfPair(rows, pair) : \A k \in DOMAIN CanonicalTypes :
            rows[j].sub[k] =
              Round2(AllocatedOfEmployee(list, Len(list), pair[1], pair[2], CanonicalTypes[k]))

\* C22: the period report has exactly one row for each (employeeCode,
\* bankName) pair of its missions and no other row, and each per-type total of
\* the row is the sum, over the missions of that employee and their expenses
\* of that type, of the amount allocated to that bank.
C22_GroupedByEmployeeAndBank ==
  Reported => GroupedByPair(lastOp.src, ReportData(lastOp.src))

\* The known variants of each canonical type (transliterated as in
\* expenseTypeMapping)
VariantsOf(type) ==
  CASE type = "transportation" -> {"transportation", "transport", "intiqalat"}
    [] type = "fees" -> {"fees", "rusum"}
    [] type = "tips" -> {"tips", "tip", "ikramiyat", "'ikramiyat"}
    [] type = "office-supplies" -> {"office-supplies", "adawat maktabiya"}
    [] type = "hospitality" -> {"hospitality", "diyafa"}

\* The type of an expense whose label is the text label
TypeOfLabel(label) ==
  IF \E k \in DOMAIN CanonicalTypes : label \in {<<v>> : v \in VariantsOf(CanonicalTypes[k])}
  THEN <<CHOOSE type \in CanonicalSet : label \in {<<v>> : v \in VariantsOf(type)}>>
  ELSE label

\* The type labels of an expense row, texts only
TypeLabelsOf(row) ==
  IF Col("naw almasruf") \in DOMAIN row /\ row[Col("naw almasruf")].t = "str"
       /\ row[Col("naw almasruf")].s # <<>>
  THEN {row[Col("naw almasruf")].s} ELSE {}

\* C23: the import of a workbook with expense rows succeeds, and each expense
\* row with a type label and the identifier of a mission row gives that
\* mission one expense, whose type is the canonical key of the label when
\* the label is a known variant and the label itself otherwise.
C23_TypeNormalization ==
  (Imported /\ Importable(lastOp.file) /\ MissionRows(lastOp.file) # <<>>) =>
    /\ lastOp.success
    /\ \A r \in DOMAIN MissionRows(lastOp.file) :
         \A rows \in {RowsOfMission(ExpenseRows(lastOp.file), MissionRows(lastOp.file)[r])} :
           (/\ rows # <<>>
            /\ SourceId(MissionRows(lastOp.file)[r]) # <<"0">>
            /\ ~HasDetailedColumn(MissionRows(lastOp.file)[r])) =>
             /\ Len(lastOp.imported[r].expenses) = Len(rows)
             /\ \A j \in DOMAIN rows :
                  \A label \in TypeLabelsOf(ExpenseRows(lastOp.file)[rows[j]]) :
                    lastOp.imported[r].expenses[j].type = TypeOfLabel(label)

\* The numeric cells of an exported row: the subtotals and the total of each
\* slot, and the grand total
AmountCols ==
  {GrandTotalCol} \cup {SlotTotalCol(i) : i \in 1..4}
    \cup {TypeCol(ExportTypeLabels[k], i) : k \in 1..5, i \in 1..4}

\* A number of at most 2 decimal places
TwoDecimals(x) == (100 * x.n) % x.d = 0

\* What the period report sums, at full precision, for a row of the report
RECURSIVE PeriodSum(_, _, _, _, _)
PeriodSum(list, n, code, bank, type) ==
  IF n = 0 THEN Zero
  ELSE RAdd(PeriodSum(list, n - 1, code, bank, type),
            IF list[n].employeeCode = code /\ Includes(AllBanks(list[n]), bank)
            THEN PeriodTypeTotal(list[n], list[n].expenses, bank, type) ELSE Zero)

\* x rounded to the nearest hundredth, halves up
Nearest(x) ==
  CHOOSE r \in {[n |-> c, d |-> 100] : c \in (RFloor([n |-> 100 * x.n, d |-> x.d]))
                                            ..(RFloor([n |-> 100 * x.n, d |-> x.d]) + 1)} :
    /\ RLe(RSub(x, r), [n |-> 1, d |-> 200])
    /\ RLt(RSub(r, x), [n |-> 1, d |-> 200]) \/ RSub(r, x) = [n |-> 1, d |-> 200]

\* C24: every amount of an exported row has at most 2 decimal places, and
\* every amount of a row of the period report is the full-precision sum of
\* its shares, rounded once to 2 decimal places.
C24_RoundedAtPresentation ==
  /\ Exported =>
       \A i \in DOMAIN lastOp.src : \A key \in AmountCols :
         TwoDecimals(ExportRow(lastOp.src[i])[key].n)
  /\ Reported =>
       \A j \in DOMAIN ReportData(lastOp.src) : \A row \in {ReportData(lastOp.src)[j]} :
         \A k \in DOMAIN CanonicalTypes :
           /\ TwoDecimals(row.sub[k])
           /\ Norm(row.sub[k].n, row.sub[k].d)
                = Norm(Nearest(PeriodSum(lastOp.src, Len(lastOp.src), row.employeeCode,
                                         row.bankName, CanonicalTypes[k])).n, 100)

\* Every expense of the mission has a canonical type and no bankAllocations
PlainExpenses(mission) ==
  \A j \in DOMAIN mission.expenses :
    /\ normalizeExpenseType(mission.expenses[j].type) \in {<<type>> : type \in CanonicalSet}
    /\ ~mission.expenses[j].bankAllocations.some

\* The sum of the amounts of the mission's expenses
RECURSIVE AmountsUpTo(_, _)
AmountsUpTo(mission, n) ==
  IF n = 0 THEN Zero ELSE RAdd(AmountsUpTo(mission, n - 1), mission.expenses[n].amount)

\* The sum of the five subtotals of slot i of a row
SlotSubtotals(row, i) ==
  RAdd(row[TypeCol(ExportTypeLabels[1], i)].n,
       RAdd(row[TypeCol(ExportTypeLabels[2], i)].n,
            RAdd(row[TypeCol(ExportTypeLabels[3], i)].n,
                 RAdd(row[TypeCol(ExportTypeLabels[4], i)].n,
                      row[TypeCol(ExportTypeLabels[5], i)].n))))

Conserved(mission, row) ==
  /\ row[GrandTotalCol].n = AmountsUpTo(mission, Len(mission.expenses))
  /\ \A i \in 1..4 : row[SlotTotalCol(i)].n = SlotSubtotals(row, i)

\* C25: the exported row of a mission whose expenses all have a canonical
\* type and no bankAllocations has as grand total the sum of the amounts of
\* the expenses, and each of its slot totals is the sum of the five subtotals
\* of the slot.
C25_ExportConservation ==
  Exported =>
    \A i \in DOMAIN lastOp.src :
      PlainExpenses(lastOp.src[i]) => Conserved(lastOp.src[i], ExportRow(lastOp.src[i]))

\* The sum of the values of the expense's bankAllocations
RECURSIVE AllocationsUpTo(_, _)
AllocationsUpTo(expense, n) ==
  IF n = 0 THEN Zero
  ELSE RAdd(AllocationsUpTo(expense, n - 1), expense.bankAllocations.v[n].amount)

FullyAllocated(expense) ==
  /\ expense.bankAllocations.some
  /\ AllocationKeys(expense) = Range(expense.banks)
  /\ expense.amount = AllocationsUpTo(expense, Len(expense.bankAllocations.v))

HookOperation == lastOp'.kind \in {"create", "delete"}

\* C27: a delete through the hook with one mission or none in the hook's
\* list returns false and changes neither the list nor the store; no create
\* or delete through the hook empties a list that has a mission; and after a
\* create or a delete the hook's list is the stored collection.
C27_LastMissionGuard ==
  [][HookOperation =>
       /\ (lastOp'.kind = "delete" /\ Len(missions) <= 1) =>
            (~lastOp'.success /\ UNCHANGED <<missions, storage>>)
       /\ missions # <<>> => missions' # <<>>
       /\ missions' = storage']_vars

\* A delete has been refused with one mission in the list
C27_Witness ==
  /\ lastOp.kind = "delete" /\ ~lastOp.success
  /\ Len(missions) = 1 /\ Len(storage) = 1

\* The snapshot of the latest backup is at most 30 minutes old (the instant
\* 30 minutes after the backup counts as expired)
FreshBackup == backup.data.some /\ now - backup.data.timestamp < BackupTTL

\* C28: a restore within 30 minutes of the latest backup sets the stored
\* collection to the snapshot of that backup, returns it and removes the
\* backup; a restore after that time, or without backup, returns null, leaves
\* the stored collection as it is and removes the backup; so a restore that
\* follows a restore returns null and changes nothing.
C28_BackupProtocol ==
  [][(lastOp'.kind = "restore" /\ now' = now) =>
       /\ FreshBackup =>
            /\ storage' = backup.data.missions
            /\ lastOp'.success
            /\ backup' = NoBackup
       /\ ~FreshBackup =>
            /\ storage' = storage
            /\ ~lastOp'.success
            /\ backup' = NoBackup
       /\ lastOp.kind = "restore" => (storage' = storage /\ ~lastOp'.success)]_vars

\* A restore has put back a snapshot that differs from what was stored
C28_Witness ==
  /\ lastOp.kind = "restore" /\ lastOp.success
  /\ storage # lastOp.before
  /\ storage # <<>>
  /\ backup = NoBackup

\* The id is the id of a stored mission
Known(id) == \E i \in DOMAIN storage : storage[i].id = id

\* C29: an update or a delete of an id the store does not know reports failure
\* (undefined, false; 404 at the routes) and leaves the stored collection as
\* it is; an update of a known id succeeds, changes no other mission and keeps
\* the id and createdAt of the updated one; a delete of a known id succeeds
\* and removes that mission and no other.
C29_UnknownIdIsNoOp ==
  [][LET op == lastOp'
         id == op.id
     IN  /\ op.kind \in {"updateMission", "PUT"} =>
               IF Known(id)
               THEN /\ op.success
                    /\ op.kind = "PUT" => op.status = 200
                    /\ Len(storage') = Len(storage)
                    /\ \A i \in DOMAIN storage :
                         IF storage[i].id = id
                         THEN /\ storage'[i].id = id
                              /\ storage'[i].createdAt = storage[i].createdAt
                         ELSE storage'[i] = storage[i]
               ELSE /\ ~op.success
                    /\ op.kind = "PUT" => op.status = 404
                    /\ storage' = storage
         /\ op.kind \in {"deleteMission", "DELETE"} =>
               IF Known(id)
               THEN /\ op.success
                    /\ op.kind = "DELETE" => op.status = 204
                    /\ Len(storage') = Len(storage) - 1
                    /\ storage' = SelectSeq(storage, LAMBDA m : m.id # id)
               ELSE /\ ~op.success
                    /\ op.kind = "DELETE" => op.status = 404
                    /\ storage' = storage]_vars

\* An update of an unknown id has been refused by a store that holds missions
C29_Witness ==
  /\ lastOp.kind = "updateMission" /\ ~lastOp.success
  /\ storage # <<>> /\ storage = lastOp.before
  /\ \A i \in DOMAIN storage : storage[i].id # lastOp.id

\* The expense is one an import made, the expense is one the page made
ImportedExpense(expense) == expense.id.pre = "expense_"
PageExpense(expense) == expense.id.pre = "expense-"

\* C30: no two expenses of localExpenses have the same id, whatever expenses
\* the active mission was loaded with (imported ones, ones the page saved
\* before) and whatever expenses were added and removed since.
C30_UniqueExpenseIds ==
  \A i \in DOMAIN page.localExpenses : \A j \in DOMAIN page.localExpenses :
    i # j => page.localExpenses[i].id # page.localExpenses[j].id

\* An expense has been added next to an imported one and to one of the page,
\* with a counter that a removal had set back: its id is one that the page
\* had saved before
C30_Witness ==
  /\ lastOp.kind = "add"
  /\ Len(page.localExpenses) = MaxExpenses
  /\ \E i \in DOMAIN page.localExpenses : ImportedExpense(page.localExpenses[i])
  /\ \E i \in DOMAIN page.localExpenses :
       /\ PageExpense(page.localExpenses[i])
       /\ page.localExpenses[i].id.a # lastOp.id
  /\ \E m \in Range(missions) :
       /\ m.id = page.activeMissionId
       /\ \E e \in Range(m.expenses) : e.id = UiExpenseId(lastOp.id)
====
